---- MODULE Spec2Model ----
(***************************************************************************)
(* Steganographic codec engine: envelope (header) codec, crypto layer,     *)
(* bit/byte codec and the LSB, DCT, DWT and PVD embedding engines.         *)
(*                                                                         *)
(* Buffers are sequences of bytes (0..255), indexed from 1: the byte the   *)
(* source reads as buf[i] is buf[i + 1] here.  Bit sequences are sequences *)
(* of 0/1.  A call (encode or decode) is run phase by phase; `pc` is the   *)
(* position of the call.                                                    *)
(***************************************************************************)
EXTENDS Integers, Sequences, FiniteSets, TLC

VARIABLES
    pc,            \* position of the current call
    algo,          \* "lsb" | "dct" | "dwt" | "pvd"
    opts,          \* options of the encode call
    width, height, \* dimensions of the raw buffer the engine works on
    data,          \* cover: raw RGBA bytes (lsb, pvd) or coefficient slots (dct, dwt)
    payload,       \* payloadBuffer handed to encode
    enc,           \* what encode derived: header, ciphertext, bitstream, crypto params
    modified,      \* the buffer encode writes (stego)
    bitIdx,        \* encode's bit cursor
    capacityBits,  \* capacity as the encoder computed it
    writes,        \* number of buffer elements assigned by the current encode
    placed,        \* bitstream indices (0-based) the encoder consumed, in order
    metrics,       \* metrics object returned by encode
    dopts,         \* options of the decode call
    dec,           \* what decode derived so far
    error,         \* kind of the error thrown by the current call, "" if none
    trail,         \* phases the calls went through, in order
    sz,            \* a call followed on its dimensions and lengths only
    hd,            \* one application of the envelope codec to given arguments
    cr,            \* the encryptWithPassphrase calls made so far and the random source
    fn             \* one application of a per-pair or per-coefficient routine

vars == <<pc, algo, opts, width, height, data, payload, enc, modified, bitIdx,
          capacityBits, writes, placed, metrics, dopts, dec, error, trail, sz, hd, cr, fn>>

----------------------------------------------------------------------------
(* Bounds of the model *)

MaxPayloadLen == 4

----------------------------------------------------------------------------
(* Small arithmetic helpers *)

Min(a, b) == IF a < b THEN a ELSE b

Max(a, b) == IF a > b THEN a ELSE b

Abs(a) == IF a < 0 THEN -a ELSE a

Pow2(n) == 2 ^ n

\* Buffer.slice(from, to) / Array.slice(from, to): 0-based, end exclusive,
\* both ends clipped to the length.
Slice(s, from, to) ==
    LET f == Min(from, Len(s))
        t == Min(to, Len(s))
    IN  IF t <= f THEN << >> ELSE [k \in 1..(t - f) |-> s[f + k]]

----------------------------------------------------------------------------
(* Bit/byte codec *)

\* bytesToBits: every byte, most significant bit first.
bytesToBits(buf) ==
    [k \in 1..(8 * Len(buf)) |->
        (buf[((k - 1) \div 8) + 1] \div Pow2(7 - ((k - 1) % 8))) % 2]

\* bits[k] || 0 : an index past the end reads undefined, which || turns to 0.
BitAt(bits, k0) == IF k0 < Len(bits) THEN bits[k0 + 1] ELSE 0

\* (val << 1) | bit on 32-bit integers; bit is 0, 1 or -1 (all ones).
ShiftOr(val, bit) == IF bit = -1 THEN -1 ELSE 2 * val + bit

\* let val = 0; for (n times) val = (val << 1) | (bits[from++] || 0)
RECURSIVE GatherBits(_, _, _, _)
GatherBits(bits, from, n, val) ==
    IF n = 0 THEN val
    ELSE GatherBits(bits, from + 1, n - 1, ShiftOr(val, BitAt(bits, from)))

\* bitsToBytes: chunks of 8 bits, the last chunk padded with 0; Buffer.from
\* keeps the low 8 bits of every value.
bitsToBytes(bits) ==
    [i \in 1..((Len(bits) + 7) \div 8) |->
        GatherBits(bits, 8 * (i - 1), 8, 0) % 256]

----------------------------------------------------------------------------
(* Library primitives of node's crypto module.  They are outside the      *)
(* repository; each is modelled by a fixed function with the contract the *)
(* code relies on (a digest of 32 bytes, a length-preserving cipher, a    *)
(* 16-byte tag that depends on key, iv and ciphertext).                   *)

DigestBytes == 32
SaltBytes == 16
IvBytes == 12
TagBytes == 16

RECURSIVE Mix(_, _, _)
Mix(buf, i, acc) ==
    IF i > Len(buf) THEN acc
    ELSE Mix(buf, i + 1, (acc * 31 + buf[i] + 1) % 65521)

\* crypto.createHash('sha256').update(buf).digest()
Sha256(buf) ==
    LET h == Mix(buf, 1, 7 + Len(buf))
    IN  [i \in 1..DigestBytes |->
            IF i = 1 THEN h % 256
            ELSE IF i = 2 THEN (h \div 256) % 256
            ELSE (h * i + 7 * i) % 256]

\* crypto.randomBytes(n): r stands for the random draw.
RandomBytes(n, r) == [i \in 1..n |-> (r * 97 + i * 29) % 256]

\* crypto.pbkdf2Sync(passphrase, salt, 100000, 32, 'sha256'): the key, as a number.
Pbkdf2(passphrase, salt) == Mix(passphrase \o salt, 1, 11)

KeyStream(key, iv, i) == (key * (i + 3) + Mix(iv, 1, 5) + i) % 256

\* cipher.update(plaintext) ++ cipher.final() of aes-256-gcm: same length as the input.
GcmCipherText(key, iv, plaintext) ==
    [i \in 1..Len(plaintext) |-> (plaintext[i] + KeyStream(key, iv, i)) % 256]

GcmPlainText(key, iv, ciphertext) ==
    [i \in 1..Len(ciphertext) |-> (ciphertext[i] + 256 - KeyStream(key, iv, i)) % 256]

\* cipher.getAuthTag()
GcmTag(key, iv, ciphertext) ==
    LET t == Mix(<<key % 256, (key \div 256) % 256>> \o iv \o ciphertext, 1, 3)
    IN  [i \in 1..TagBytes |-> (t * (i + 1) + (t \div 256) + i) % 256]

----------------------------------------------------------------------------
(* Crypto layer *)

\* encryptWithPassphrase with a salt and an iv that do not come from the
\* random source.
encryptWithFixedSaltAndIv(plaintextBuf, passphrase, rs, ri) ==
    LET salt == RandomBytes(SaltBytes, 0)
        key == Pbkdf2(passphrase, salt)
        iv == RandomBytes(IvBytes, 0)
        ciphertext == GcmCipherText(key, iv, plaintextBuf)
    IN  [ciphertext |-> ciphertext, salt |-> salt, iv |-> iv,
         authTag |-> GcmTag(key, iv, ciphertext)]

\* encryptWithPassphrase; rs and ri are the two random draws (salt, iv).
encryptWithPassphrase(plaintextBuf, passphrase, rs, ri) ==
    LET salt == RandomBytes(SaltBytes, rs)
        key == Pbkdf2(passphrase, salt)
        iv == RandomBytes(IvBytes, ri)
        ciphertext == GcmCipherText(key, iv, plaintextBuf)
    IN  [ciphertext |-> ciphertext, salt |-> salt, iv |-> iv,
         authTag |-> GcmTag(key, iv, ciphertext)]

\* decryptWithPassphrase: dec.final() throws when the tag does not verify.
decryptWithPassphrase(ciphertext, passphrase, salt, iv, authTag) ==
    LET key == Pbkdf2(passphrase, salt)
    IN  IF GcmTag(key, iv, ciphertext) = authTag
        THEN [ok |-> TRUE, plaintext |-> GcmPlainText(key, iv, ciphertext)]
        ELSE [ok |-> FALSE, plaintext |-> << >>]

----------------------------------------------------------------------------
(* Envelope codec *)

Magic == <<83, 84, 71, 49>>    \* 'STG1'

PlainHeaderBytes == 41
EncryptedHeaderBytes == 85

\* lenBuf.writeUInt32BE with the bytes in the opposite order.
UInt32LE(n) ==
    <<n % 256, (n \div 256) % 256, (n \div 65536) % 256, (n \div 16777216) % 256>>

\* lenBuf.writeUInt32BE(payloadLength, 0)
UInt32BE(n) ==
    <<(n \div 16777216) % 256, (n \div 65536) % 256, (n \div 256) % 256, n % 256>>

\* buf.readUInt32BE(5).  The model checker's integers have 32 bits with a sign:
\* a length of 2^27 bytes or more is read as LengthCap, which like it is
\* larger than every buffer of the model.
LengthCap == 134217728

ReadUInt32BE(buf, off) ==
    IF buf[off + 1] < 8
    THEN buf[off + 1] * 16777216 + buf[off + 2] * 65536 + buf[off + 3] * 256
           + buf[off + 4]
    ELSE LengthCap

\* An optional buffer argument: absent (undefined) or a buffer of any length.
Absent == [present |-> FALSE, bytes |-> << >>]
Given(b) == [present |-> TRUE, bytes |-> b]

\* buildHeader({payloadLength, encrypted, salt, iv, authTag}, plaintextBuffer),
\* for a payloadLength that writeUInt32BE accepts
buildHeader(f, plaintextBuffer) ==
    LET base == Magic \o <<IF f.encrypted THEN 1 ELSE 0>> \o UInt32BE(f.payloadLength)
                  \o Sha256(plaintextBuffer)
    IN  IF ~f.encrypted
        THEN [err |-> "", headerBuffer |-> base, headerSize |-> Len(base)]
        ELSE IF ~f.salt.present \/ ~f.iv.present \/ ~f.authTag.present
        THEN [err |-> "InvalidCryptoParams", headerBuffer |-> << >>, headerSize |-> 0]
        ELSE LET hb == base \o f.salt.bytes \o f.iv.bytes \o f.authTag.bytes
             IN  [err |-> "", headerBuffer |-> hb, headerSize |-> Len(hb)]

NoHeader ==
    [encrypted |-> FALSE, payloadLength |-> 0, sha256 |-> << >>, headerSize |-> 0,
     hasCrypto |-> FALSE, salt |-> << >>, iv |-> << >>, authTag |-> << >>]

\* parseHeader reading the whole flags byte instead of its bit 0.
parseHeaderWholeFlags(buf) ==
    IF Len(buf) < 41 THEN [err |-> "TruncatedHeader", hdr |-> NoHeader]
    ELSE IF Slice(buf, 0, 4) # Magic THEN [err |-> "InvalidMagic", hdr |-> NoHeader]
    ELSE LET encrypted == buf[5] # 0
             payloadLength == ReadUInt32BE(buf, 5)
             sha == Slice(buf, 9, 41)
         IN  IF ~encrypted
             THEN [err |-> "",
                   hdr |-> [NoHeader EXCEPT !.payloadLength = payloadLength,
                                            !.sha256 = sha, !.headerSize = 41]]
             ELSE IF Len(buf) < 85
             THEN [err |-> "",
                   hdr |-> [NoHeader EXCEPT !.encrypted = TRUE,
                                            !.payloadLength = payloadLength,
                                            !.sha256 = sha, !.headerSize = 85]]
             ELSE [err |-> "",
                   hdr |-> [encrypted |-> TRUE, payloadLength |-> payloadLength,
                            sha256 |-> sha, headerSize |-> 85, hasCrypto |-> TRUE,
                            salt |-> Slice(buf, 41, 57), iv |-> Slice(buf, 57, 69),
                            authTag |-> Slice(buf, 69, 85)]]


\* parseHeader(buf): err is "" when a header object is returned.
parseHeader(buf) ==
    IF Len(buf) < 41 THEN [err |-> "TruncatedHeader", hdr |-> NoHeader]
    ELSE IF Slice(buf, 0, 4) # Magic THEN [err |-> "InvalidMagic", hdr |-> NoHeader]
    ELSE LET encrypted == (buf[5] % 2) = 1
             payloadLength == ReadUInt32BE(buf, 5)
             sha == Slice(buf, 9, 41)
         IN  IF ~encrypted
             THEN [err |-> "",
                   hdr |-> [NoHeader EXCEPT !.payloadLength = payloadLength,
                                            !.sha256 = sha, !.headerSize = 41]]
             ELSE IF Len(buf) < 85
             THEN [err |-> "",
                   hdr |-> [NoHeader EXCEPT !.encrypted = TRUE,
                                            !.payloadLength = payloadLength,
                                            !.sha256 = sha, !.headerSize = 85]]
             ELSE [err |-> "",
                   hdr |-> [encrypted |-> TRUE, payloadLength |-> payloadLength,
                            sha256 |-> sha, headerSize |-> 85, hasCrypto |-> TRUE,
                            salt |-> Slice(buf, 41, 57), iv |-> Slice(buf, 57, 69),
                            authTag |-> Slice(buf, 69, 85)]]

----------------------------------------------------------------------------
(* Options and the prelude every encoder starts with *)

\* A passphrase option: absent (undefined / null) or a string, given as bytes.
\* JavaScript treats the absent and the empty passphrase alike (both falsy).
Truthy(p) == p.present /\ p.bytes # << >>

\* options.bitsPerChannel || 1
BitsPerChannelOf(o) == IF o.bitsPerChannel = 0 THEN 1 ELSE o.bitsPerChannel

\* Optional encryption, header, payloadWithHeader and its bits.
\* The prelude with the digest taken of what follows the header.
BuildPayloadDigestOfBody(payloadBuffer, o, rs, ri) ==
    IF Truthy(o.passphrase)
    THEN LET e == encryptWithPassphrase(payloadBuffer, o.passphrase.bytes, rs, ri)
             h == buildHeader([payloadLength |-> Len(e.ciphertext), encrypted |-> TRUE,
                               salt |-> Given(e.salt), iv |-> Given(e.iv),
                               authTag |-> Given(e.authTag)], e.ciphertext)
         IN  [encrypted |-> TRUE, salt |-> e.salt, iv |-> e.iv, authTag |-> e.authTag,
              headerBuffer |-> h.headerBuffer, body |-> e.ciphertext,
              payloadBits |-> bytesToBits(h.headerBuffer \o e.ciphertext)]
    ELSE LET h == buildHeader([payloadLength |-> Len(payloadBuffer), encrypted |-> FALSE,
                               salt |-> Absent, iv |-> Absent, authTag |-> Absent],
                              payloadBuffer)
         IN  [encrypted |-> FALSE, salt |-> << >>, iv |-> << >>, authTag |-> << >>,
              headerBuffer |-> h.headerBuffer, body |-> payloadBuffer,
              payloadBits |-> bytesToBits(h.headerBuffer \o payloadBuffer)]


BuildPayload(payloadBuffer, o, rs, ri) ==
    IF Truthy(o.passphrase)
    THEN LET e == encryptWithPassphrase(payloadBuffer, o.passphrase.bytes, rs, ri)
             h == buildHeader([payloadLength |-> Len(e.ciphertext), encrypted |-> TRUE,
                               salt |-> Given(e.salt), iv |-> Given(e.iv),
                               authTag |-> Given(e.authTag)], payloadBuffer)
         IN  [encrypted |-> TRUE, salt |-> e.salt, iv |-> e.iv, authTag |-> e.authTag,
              headerBuffer |-> h.headerBuffer, body |-> e.ciphertext,
              payloadBits |-> bytesToBits(h.headerBuffer \o e.ciphertext)]
    ELSE LET h == buildHeader([payloadLength |-> Len(payloadBuffer), encrypted |-> FALSE,
                               salt |-> Absent, iv |-> Absent, authTag |-> Absent],
                              payloadBuffer)
         IN  [encrypted |-> FALSE, salt |-> << >>, iv |-> << >>, authTag |-> << >>,
              headerBuffer |-> h.headerBuffer, body |-> payloadBuffer,
              payloadBits |-> bytesToBits(h.headerBuffer \o payloadBuffer)]

----------------------------------------------------------------------------
(* LSB engine *)

RawChannels == 4          \* ensureAlpha(): raw pixels are RGBA
LsbSafetyLimit == 1000000 \* decodeLSB stops extracting at this many bits

\* const capacityBits = pixelCount * channels.length * bitsPerChannel
LsbCapacityBits(pixelCount, nch, bpc) == pixelCount * nch * bpc

\* The channel loop of one pixel: for (const c of channels) { ... }.
\* st = [data, bitIdx, writes].
RECURSIVE LsbEmbedChannels(_, _, _, _, _, _)
LsbEmbedChannels(st, base, ci, channels, bpc, bits) ==
    IF ci > Len(channels) \/ st.bitIdx >= Len(bits) THEN st
    ELSE LET i == base + channels[ci] + 1
             val == GatherBits(bits, st.bitIdx, bpc, 0)
             mask == Pow2(bpc) - 1
             kept == st.data[i] - (st.data[i] % (mask + 1))   \* data & ~mask
         IN  LsbEmbedChannels([data |-> [st.data EXCEPT ![i] = kept + val],
                               bitIdx |-> st.bitIdx + bpc,
                               writes |-> st.writes + 1],
                              base, ci + 1, channels, bpc, bits)

\* The pixel loop: for (px = 0; px < pixelCount && bitIdx < payloadBits.length; px++),
\* over the pixels from .. to - 1.  The range is halved so that the
\* evaluation stays shallow; the pixels are still visited in order.
RECURSIVE LsbEmbedPixels(_, _, _, _, _, _)
LsbEmbedPixels(st, from, to, channels, bpc, bits) ==
    IF from >= to \/ st.bitIdx >= Len(bits) THEN st
    ELSE IF to = from + 1
    THEN LsbEmbedChannels(st, from * RawChannels, 1, channels, bpc, bits)
    ELSE LET mid == (from + to) \div 2
         IN  LsbEmbedPixels(LsbEmbedPixels(st, from, mid, channels, bpc, bits),
                            mid, to, channels, bpc, bits)

\* Number of bits decodeLSB's extraction loop collects.
LsbExtractCount(pixelCount, nch, bpc) == Min(pixelCount * nch * bpc, LsbSafetyLimit)

\* Bit k (0-based) of decodeLSB's extraction: pixel, then channel, then bit,
\* most significant of the bpc low bits first.
LsbExtractBits(buf, pixelCount, channels, bpc) ==
    [k \in 1..LsbExtractCount(pixelCount, Len(channels), bpc) |->
        LET slot == (k - 1) \div bpc
            b == (k - 1) % bpc
            px == slot \div Len(channels)
            c == channels[(slot % Len(channels)) + 1]
        IN  (buf[px * RawChannels + c + 1] \div Pow2(bpc - 1 - b)) % 2]

----------------------------------------------------------------------------
(* PVD engine *)
\* A range table that grants 4 bits to the differences 8..15
getRangeInfoFourBitsFromEight(diff) ==
    LET absDiff == Abs(diff)
    IN  IF absDiff >= 0 /\ absDiff <= 7 THEN [start |-> 0, end |-> 7, bits |-> 3]
        ELSE IF absDiff >= 8 /\ absDiff <= 15 THEN [start |-> 8, end |-> 15, bits |-> 4]
        ELSE IF absDiff >= 16 /\ absDiff <= 31 THEN [start |-> 16, end |-> 31, bits |-> 4]
        ELSE IF absDiff >= 32 /\ absDiff <= 63 THEN [start |-> 32, end |-> 63, bits |-> 5]
        ELSE IF absDiff >= 64 /\ absDiff <= 127 THEN [start |-> 64, end |-> 127, bits |-> 6]
        ELSE IF absDiff >= 128 /\ absDiff <= 255 THEN [start |-> 128, end |-> 255, bits |-> 7]
        ELSE [start |-> 0, end |-> 7, bits |-> 3]

\* getRangeInfo(diff)
getRangeInfo(diff) ==
    LET absDiff == Abs(diff)
    IN  IF absDiff >= 0 /\ absDiff <= 7 THEN [start |-> 0, end |-> 7, bits |-> 3]
        ELSE IF absDiff >= 8 /\ absDiff <= 15 THEN [start |-> 8, end |-> 15, bits |-> 3]
        ELSE IF absDiff >= 16 /\ absDiff <= 31 THEN [start |-> 16, end |-> 31, bits |-> 4]
        ELSE IF absDiff >= 32 /\ absDiff <= 63 THEN [start |-> 32, end |-> 63, bits |-> 5]
        ELSE IF absDiff >= 64 /\ absDiff <= 127 THEN [start |-> 64, end |-> 127, bits |-> 6]
        ELSE IF absDiff >= 128 /\ absDiff <= 255 THEN [start |-> 128, end |-> 255, bits |-> 7]
        ELSE [start |-> 0, end |-> 7, bits |-> 3]

\* Math.floor(d / 2) and Math.ceil(d / 2) for an integer d
FloorHalf(d) == d \div 2
CeilHalf(d) == -((-d) \div 2)

\* Math.max(0, Math.min(255, v))
Clamp255(v) == Max(0, Min(255, v))

\* embedInPair(p1, p2, dataBits)
embedInPair(p1, p2, dataBits) ==
    LET origDiff == p2 - p1
        rangeInfo == getRangeInfo(origDiff)
        bitsToEmbed == Min(rangeInfo.bits, Len(dataBits))
        dataValue == GatherBits(dataBits, 0, bitsToEmbed, 0)
        newDiff == rangeInfo.start + dataValue
        diffChange == newDiff - Abs(origDiff)
        newP1 == IF origDiff >= 0 THEN p1 - CeilHalf(diffChange)
                 ELSE p1 + FloorHalf(diffChange)
        newP2 == IF origDiff >= 0 THEN p2 + FloorHalf(diffChange)
                 ELSE p2 - CeilHalf(diffChange)
    IN  IF bitsToEmbed = 0 THEN [p1 |-> p1, p2 |-> p2, bitsUsed |-> 0]
        ELSE [p1 |-> Clamp255(newP1), p2 |-> Clamp255(newP2), bitsUsed |-> bitsToEmbed]

\* extractFromPair(p1, p2): capacity bits of (|diff| - start), most significant first
extractFromPair(p1, p2) ==
    LET diff == p2 - p1
        rangeInfo == getRangeInfo(diff)
        dataValue == Abs(diff) - rangeInfo.start
    IN  [k \in 1..rangeInfo.bits |-> (dataValue \div Pow2(rangeInfo.bits - k)) % 2]

\* Number of pairs per row: x = 0, 2, 4, ... with x < width - 1
PairsPerRow(w) == w \div 2

\* Buffer indices (1-based) of pair n of the traversal: the loops run over
\* channel c, then row y, then pair x of the row, so
\* n = (c * height + y) * PairsPerRow(width) + x / 2.
PvdPairIndex(n, w, h) ==
    LET c == n \div (h * PairsPerRow(w))
        y == (n \div PairsPerRow(w)) % h
        x == 2 * (n % PairsPerRow(w))
    IN  [idx1 |-> (y * w + x) * RawChannels + c + 1,
         idx2 |-> (y * w + x + 1) * RawChannels + c + 1]

\* The body of the innermost loop for pair n.
\* st = [modified, bitIdx, totalCapacity, writes]; cover is the buffer read.
PvdEmbedPair(st, cover, n, w, h, bits) ==
    LET at == PvdPairIndex(n, w, h)
        p1 == cover[at.idx1]
        p2 == cover[at.idx2]
        rangeInfo == getRangeInfo(p2 - p1)
        bitsForThisPair == Slice(bits, st.bitIdx, st.bitIdx + rangeInfo.bits)
        r == embedInPair(p1, p2, bitsForThisPair)
    IN  [modified |-> [st.modified EXCEPT ![at.idx1] = r.p1, ![at.idx2] = r.p2],
         bitIdx |-> st.bitIdx + r.bitsUsed,
         totalCapacity |-> st.totalCapacity + rangeInfo.bits,
         writes |-> st.writes + 2]

\* The three nested loops (c < 3, y < height, x < width - 1, each guarded by
\* bitIdx < payloadBits.length) over the pairs from .. to - 1 of the
\* traversal; the range is halved so that the evaluation stays shallow.
RECURSIVE PvdEmbedPairs(_, _, _, _, _, _, _)
PvdEmbedPairs(st, cover, from, to, w, h, bits) ==
    IF from >= to \/ st.bitIdx >= Len(bits) THEN st
    ELSE IF to = from + 1 THEN PvdEmbedPair(st, cover, from, w, h, bits)
    ELSE LET mid == (from + to) \div 2
         IN  PvdEmbedPairs(PvdEmbedPairs(st, cover, from, mid, w, h, bits),
                           cover, mid, to, w, h, bits)

\* decodePVD's extraction over the pairs from .. to - 1 of the same traversal
RECURSIVE PvdExtractBits(_, _, _, _, _)
PvdExtractBits(buf, from, to, w, h) ==
    IF from >= to THEN << >>
    ELSE IF to = from + 1
    THEN extractFromPair(buf[PvdPairIndex(from, w, h).idx1],
                         buf[PvdPairIndex(from, w, h).idx2])
    ELSE LET mid == (from + to) \div 2
         IN  PvdExtractBits(buf, from, mid, w, h) \o PvdExtractBits(buf, mid, to, w, h)

\* rangeInfo.bits of pair n of the traversal
PvdPairBits(buf, n, w, h) ==
    getRangeInfo(buf[PvdPairIndex(n, w, h).idx2] - buf[PvdPairIndex(n, w, h).idx1]).bits

\* Sum of rangeInfo.bits over the pairs from .. to - 1 of the traversal
RECURSIVE PvdCapacityBits(_, _, _, _, _)
PvdCapacityBits(buf, from, to, w, h) ==
    IF from >= to THEN 0
    ELSE IF to = from + 1 THEN PvdPairBits(buf, from, w, h)
    ELSE LET mid == (from + to) \div 2
         IN  PvdCapacityBits(buf, from, mid, w, h) + PvdCapacityBits(buf, mid, to, w, h)

----------------------------------------------------------------------------
(* DCT engine.  The engine is modelled on the coefficients it embeds in:  *)
(* the buffer of a DCT call is the sequence of the values dctB[r][col] at *)
(* the six embedding positions of every block and channel, in traversal   *)
(* order (block row, block column, channel, position).                    *)

BlockSize == 8
CoeffsPerBlock == 6        \* embedPos has six entries
DctQuantStep == 8
DctSafetyLimit == 100000   \* decodeDCT stops collecting bits at this many

\* width = width - (width % 8)
AlignDown8(n) == n - (n % 8)

DctBlocks(w, h) == (AlignDown8(w) \div BlockSize) * (AlignDown8(h) \div BlockSize)

\* A capacity of nine coefficients in every block
DctCapacityBitsNinePerBlock(w, h, bpc) == DctBlocks(w, h) * (CoeffsPerBlock + 3) * 3 * bpc

\* const capacityBits = totalBlocks * coeffsPerBlock * 3 * bitsPerChannel
DctCapacityBits(w, h, bpc) == DctBlocks(w, h) * CoeffsPerBlock * 3 * bpc

\* Math.trunc(a / d) for an integer a and d > 0
TruncDiv(a, d) == IF a >= 0 THEN a \div d ELSE -((-a) \div d)

\* An embedding that always steps the quantized coefficient upwards
DctEmbedCoeffAlwaysUp(coeff, bit) ==
    LET q == TruncDiv(coeff, DctQuantStep)
        wantOdd == (bit = 1)
        newQ == IF ((Abs(q) % 2) = 1) = wantOdd THEN q ELSE q + 1
    IN  newQ * DctQuantStep

\* The coefficient written for one bit: newQ * 8
DctEmbedCoeff(coeff, bit) ==
    LET q == TruncDiv(coeff, DctQuantStep)
        wantOdd == (bit = 1)
        newQ == IF ((Abs(q) % 2) = 1) = wantOdd THEN q
                ELSE q + (IF q >= 0 THEN 1 ELSE -1)
    IN  newQ * DctQuantStep

\* The bit decodeDCT reads from a coefficient: Math.abs(q) & 1
DctReadBit(coeff) == Abs(TruncDiv(coeff, DctQuantStep)) % 2

\* for (const [r, col] of embedPos) { if (bitIdx >= len) break; ... }
\* st = [modified, bitIdx, writes, placed]; slot0 is the first slot of the block.
RECURSIVE DctEmbedPositions(_, _, _, _)
DctEmbedPositions(st, slot0, k, bits) ==
    IF k >= CoeffsPerBlock \/ st.bitIdx >= Len(bits) THEN st
    ELSE LET i == slot0 + k + 1
         IN  DctEmbedPositions(
                 [st EXCEPT !.modified[i] = DctEmbedCoeff(st.modified[i], bits[st.bitIdx + 1]),
                            !.bitIdx = st.bitIdx + 1,
                            !.placed = Append(st.placed, st.bitIdx)],
                 slot0, k + 1, bits)

\* One (block, channel) n = (by * blocksX + bx) * 3 + c: its six positions,
\* then the block is written back as 64 pixels.
DctEmbedBlock(st, n, bits) ==
    LET t == DctEmbedPositions(st, n * CoeffsPerBlock, 0, bits)
    IN  [t EXCEPT !.writes = t.writes + BlockSize * BlockSize]

\* The three nested loops over by, bx, c, each guarded by
\* bitIdx < payloadBits.length, over the (block, channel)s from .. to - 1;
\* the range is halved so that the evaluation stays shallow.
RECURSIVE DctEmbedBlocks(_, _, _, _)
DctEmbedBlocks(st, from, to, bits) ==
    IF from >= to \/ st.bitIdx >= Len(bits) THEN st
    ELSE IF to = from + 1 THEN DctEmbedBlock(st, from, bits)
    ELSE LET mid == (from + to) \div 2
         IN  DctEmbedBlocks(DctEmbedBlocks(st, from, mid, bits), mid, to, bits)

\* Number of bits decodeDCT collects: six per (block, channel), no new
\* (block, channel) once 100000 bits are there.
DctExtractCount(blocks) ==
    Min(blocks * 3 * CoeffsPerBlock,
        CoeffsPerBlock * ((DctSafetyLimit + CoeffsPerBlock - 1) \div CoeffsPerBlock))

DctExtractBits(buf, blocks) ==
    [k \in 1..DctExtractCount(blocks) |-> DctReadBit(buf[k])]

----------------------------------------------------------------------------
(* DWT engine.  Modelled on the high-high subband: the buffer of a DWT    *)
(* call is the sequence of HH coefficients, channel by channel, row by    *)
(* row.  A Haar HH coefficient of integer pixels is a multiple of 1/2, so  *)
(* the buffer holds twice the coefficient, an integer.                     *)

DwtQuantStep == 4

HalfOf(n) == n \div 2      \* Math.floor(width / 2)

\* const capacityBits = halfWidth * halfHeight * 3 * bitsPerChannel
DwtCapacityBits(w, h, bpc) == HalfOf(w) * HalfOf(h) * 3 * bpc

\* Math.round(coeff / quantStep) of the coefficient c2 / 2: ties go up.
DwtQuant(c2) == (c2 + DwtQuantStep) \div (2 * DwtQuantStep)

\* a % 2 in JavaScript: the sign of the result is the sign of a
JsRem2(a) == IF a >= 0 THEN a % 2 ELSE -((-a) % 2)

\* The (doubled) coefficient after embedding one bit
DwtEmbedCoeff(c2, bit) ==
    LET quantCoeff == DwtQuant(c2)
    IN  IF bit = 0 /\ JsRem2(quantCoeff) # 0 THEN 2 * ((quantCoeff - 1) * DwtQuantStep)
        ELSE IF bit = 1 /\ JsRem2(quantCoeff) = 0 THEN 2 * ((quantCoeff + 1) * DwtQuantStep)
        ELSE c2

\* The bit decodeDWT reads from a coefficient: quantCoeff % 2
DwtReadBit(c2) == JsRem2(DwtQuant(c2))

\* The body of the x loop for coefficient k = y * halfWidth + x of channel c
DwtEmbedAt(st, c, k, perChannel, bits) ==
    LET i == c * perChannel + k + 1
    IN  IF st.bitIdx < Len(bits)
        THEN [st EXCEPT !.modified[i] = DwtEmbedCoeff(st.modified[i], bits[st.bitIdx + 1]),
                        !.bitIdx = st.bitIdx + 1,
                        !.placed = Append(st.placed, st.bitIdx)]
        ELSE st

\* The y/x loops of one channel, both guarded by bitIdx < maxBits, over the
\* coefficients from .. to - 1; the range is halved so that the evaluation
\* stays shallow.  st = [modified, bitIdx, writes, placed].
RECURSIVE DwtEmbedCoeffs(_, _, _, _, _, _, _)
DwtEmbedCoeffs(st, c, from, to, perChannel, maxBits, bits) ==
    IF from >= to \/ st.bitIdx >= maxBits THEN st
    ELSE IF to = from + 1 THEN DwtEmbedAt(st, c, from, perChannel, bits)
    ELSE LET mid == (from + to) \div 2
         IN  DwtEmbedCoeffs(DwtEmbedCoeffs(st, c, from, mid, perChannel, maxBits, bits),
                            c, mid, to, perChannel, maxBits, bits)

\* for (c = 0; c < 3; c++): bitIdx restarts at c * (halfWidth * halfHeight * bpc);
\* every channel is written back whole (width * height pixels).
RECURSIVE DwtEmbedChannels(_, _, _, _, _, _)
DwtEmbedChannels(st, c, w, h, bpc, bits) ==
    IF c >= 3 THEN st
    ELSE LET perChannel == HalfOf(w) * HalfOf(h)
             start == c * (perChannel * bpc)
             maxBits == Min(Len(bits), (c + 1) * (perChannel * bpc))
             t == DwtEmbedCoeffs([st EXCEPT !.bitIdx = start], c, 0, perChannel, perChannel,
                                maxBits, bits)
         IN  DwtEmbedChannels([t EXCEPT !.writes = t.writes + w * h], c + 1, w, h, bpc, bits)

DwtExtractBits(buf, w, h) ==
    [k \in 1..(3 * HalfOf(w) * HalfOf(h)) |-> DwtReadBit(buf[k])]

----------------------------------------------------------------------------
(* The Haar transform of one channel, pixel by pixel.  A channel is the
   sequence of its width * height samples, row by row.  The quotients by
   Math.sqrt(2) are taken exactly: a value of the row stage is kept
   multiplied by sqrt(2), a subband coefficient doubled, a reconstructed
   sample multiplied by 4; all three are integers. *)

\* signal[2 * i + 1] || signal[2 * i]: a second sample of 0 is falsy and
\* the first is taken in its place
SecondOrFirst(a, b) == IF b = 0 THEN a ELSE b

\* haarDWT1D over row y: approx[x] and detail[x], times sqrt(2)
RowApprox(ch, w, x, y) ==
    ch[y * w + 2 * x + 1] + SecondOrFirst(ch[y * w + 2 * x + 1], ch[y * w + 2 * x + 2])

RowDetail(ch, w, x, y) ==
    ch[y * w + 2 * x + 1] - SecondOrFirst(ch[y * w + 2 * x + 1], ch[y * w + 2 * x + 2])

\* haarDWT2D(imageData, width, height): the four subbands, each halfWidth *
\* halfHeight doubled coefficients, row by row
haarDWT2D(ch, w, h) ==
    LET hw == HalfOf(w)
        hh == HalfOf(h)
        X(k) == (k - 1) % hw
        Y(k) == (k - 1) \div hw
        A0(k) == RowApprox(ch, w, X(k), 2 * Y(k))
        A1(k) == SecondOrFirst(A0(k), RowApprox(ch, w, X(k), 2 * Y(k) + 1))
        D0(k) == RowDetail(ch, w, X(k), 2 * Y(k))
        D1(k) == SecondOrFirst(D0(k), RowDetail(ch, w, X(k), 2 * Y(k) + 1))
    IN  [LL |-> [k \in 1..(hw * hh) |-> A0(k) + A1(k)],
         LH |-> [k \in 1..(hw * hh) |-> A0(k) - A1(k)],
         HL |-> [k \in 1..(hw * hh) |-> D0(k) + D1(k)],
         HH |-> [k \in 1..(hw * hh) |-> D0(k) - D1(k)],
         halfWidth |-> hw, halfHeight |-> hh]

\* haarIDWT2D(LL, LH, HL, HH, halfWidth, halfHeight): 2 * halfWidth samples
\* in each of 2 * halfHeight rows, each times 4
haarIDWT2D(LL, LH, HL, HH, hw, hh) ==
    [n \in 1..(4 * hw * hh) |->
        LET x == (n - 1) % (2 * hw)
            y == (n - 1) \div (2 * hw)
            k == (y \div 2) * hw + (x \div 2) + 1
            sy == IF y % 2 = 0 THEN 1 ELSE -1
            sx == IF x % 2 = 0 THEN 1 ELSE -1
        IN  (LL[k] + sy * LH[k]) + sx * (HL[k] + sy * HH[k])]

\* Math.round of a sample kept times 4
RoundQuarter(v4) == (v4 + 2) \div 4

\* The write-back loop of encodeDWT for one channel: sample (x, y) is read
\* at modifiedChannelData[y * width + x]; past the end of the array the
\* value is undefined, Math.round gives NaN, and NaN is stored as 0.
DwtWriteBack(idwt, w, h) ==
    [n \in 1..(w * h) |->
        IF n <= Len(idwt) THEN Clamp255(RoundQuarter(idwt[n])) ELSE 0]

\* modifiedChannelData of encodeDWT: the samples haarIDWT2D rebuilds from
\* the subbands after the embedding loop, each times 4
DwtModifiedChannelData(ch, w, h, bits) ==
    LET sub == haarDWT2D(ch, w, h)
        HH == [k \in 1..Len(sub.HH) |->
                  IF k <= Len(bits) THEN DwtEmbedCoeff(sub.HH[k], bits[k]) ELSE sub.HH[k]]
    IN  haarIDWT2D(sub.LL, sub.LH, sub.HL, HH, sub.halfWidth, sub.halfHeight)

\* One channel through encodeDWT: bits[k] is the bit embedded in
\* coefficient k of the HH subband, coefficients past Len(bits) are kept.
DwtEncodeChannel(ch, w, h, bits) ==
    DwtWriteBack(DwtModifiedChannelData(ch, w, h, bits), w, h)

\* The bits decodeDWT reads from one channel
DwtDecodeChannel(ch, w, h) ==
    LET sub == haarDWT2D(ch, w, h)
    IN  [k \in 1..Len(sub.HH) |-> DwtReadBit(sub.HH[k])]

----------------------------------------------------------------------------
(* Envelope parsing of the four decoders: from the extracted bits to the  *)
(* header and the payload bytes.  r = [err, header, payloadBuf]; header   *)
(* is the header object parsed so far, also when a later check throws.    *)

ParseFailed(kind) == [err |-> kind, header |-> NoHeader, payloadBuf |-> << >>]

\* decodeLSB: every read is guarded by a length check
LsbParseEnvelope(extractedBits) ==
    LET headerFixedBits == PlainHeaderBytes * 8
        parsed == parseHeader(Slice(bitsToBytes(Slice(extractedBits, 0, headerFixedBits)),
                                    0, PlainHeaderBytes))
        totalHeaderBytes == parsed.hdr.headerSize
        totalHeaderBits == totalHeaderBytes * 8
        full == parseHeader(Slice(bitsToBytes(Slice(extractedBits, 0, totalHeaderBits)),
                                  0, totalHeaderBytes))
        payloadBytes == full.hdr.payloadLength
        totalBitsNeeded == totalHeaderBits + payloadBytes * 8
    IN  IF Len(extractedBits) < headerFixedBits THEN ParseFailed("TruncatedHeader")
        ELSE IF parsed.err # "" THEN ParseFailed(parsed.err)
        ELSE IF Len(extractedBits) < totalHeaderBits
        THEN [err |-> "TruncatedHeader", header |-> parsed.hdr, payloadBuf |-> << >>]
        ELSE IF full.err # "" THEN ParseFailed(full.err)
        ELSE IF Len(extractedBits) < totalBitsNeeded
        THEN [err |-> "NotEnoughData", header |-> full.hdr, payloadBuf |-> << >>]
        ELSE [err |-> "", header |-> full.hdr,
              payloadBuf |-> Slice(bitsToBytes(Slice(extractedBits, totalHeaderBits,
                                                     totalBitsNeeded)), 0, payloadBytes)]

\* decodePVD: no length check; slices are clipped to what is there
PvdParseEnvelope(extractedBits) ==
    LET headerFixedBits == PlainHeaderBytes * 8
        parsed == parseHeader(Slice(bitsToBytes(Slice(extractedBits, 0, headerFixedBits)),
                                    0, PlainHeaderBytes))
        totalHeaderBytes == parsed.hdr.headerSize
        totalHeaderBits == totalHeaderBytes * 8
        full == parseHeader(Slice(bitsToBytes(Slice(extractedBits, 0, totalHeaderBits)),
                                  0, totalHeaderBytes))
        payloadBytes == full.hdr.payloadLength
    IN  IF parsed.err # "" THEN ParseFailed(parsed.err)
        ELSE IF full.err # "" THEN ParseFailed(full.err)
        ELSE [err |-> "", header |-> full.hdr,
              payloadBuf |-> Slice(bitsToBytes(Slice(extractedBits, totalHeaderBits,
                                                     totalHeaderBits + payloadBytes * 8)),
                                   0, payloadBytes)]

\* decodeDWT: the same text as decodePVD
DwtParseEnvelope(extractedBits) ==
    LET headerFixedBits == PlainHeaderBytes * 8
        parsed == parseHeader(Slice(bitsToBytes(Slice(extractedBits, 0, headerFixedBits)),
                                    0, PlainHeaderBytes))
        totalHeaderBytes == parsed.hdr.headerSize
        totalHeaderBits == totalHeaderBytes * 8
        full == parseHeader(Slice(bitsToBytes(Slice(extractedBits, 0, totalHeaderBits)),
                                  0, totalHeaderBytes))
        payloadBytes == full.hdr.payloadLength
    IN  IF parsed.err # "" THEN ParseFailed(parsed.err)
        ELSE IF full.err # "" THEN ParseFailed(full.err)
        ELSE [err |-> "", header |-> full.hdr,
              payloadBuf |-> Slice(bitsToBytes(Slice(extractedBits, totalHeaderBits,
                                                     totalHeaderBits + payloadBytes * 8)),
                                   0, payloadBytes)]

\* decodeDCT: one parse of the first 85 bytes; whatever parseHeader throws is
\* caught and rethrown as 'No hidden data found in this image'
DctParseEnvelope(bits) ==
    LET r == parseHeader(Slice(bitsToBytes(bits), 0, EncryptedHeaderBytes))
        start == r.hdr.headerSize * 8
        end == start + r.hdr.payloadLength * 8
    IN  IF r.err # "" THEN ParseFailed("NoHiddenData")
        ELSE [err |-> "", header |-> r.hdr,
              payloadBuf |-> Slice(bitsToBytes(Slice(bits, start, end)),
                                   0, r.hdr.payloadLength)]

\* A decoder that never asks for a passphrase
PassphraseNeverMissing(p) == FALSE

\* if (!passphrase) throw ...   (passphrase = options.passphrase || null)
PassphraseMissing(p) == ~Truthy(p)

\* A decoder that accepts any digest
DigestAlwaysMatches(buf, header) == TRUE

\* !sha.equals(header.sha256) negated: the recomputed digest is the stored one
DigestMatches(buf, header) == Sha256(buf) = header.sha256

----------------------------------------------------------------------------
(* Inputs of the calls *)

Algos == {"lsb", "dct", "dwt", "pvd"}

Hello == <<72, 69, 76, 76, 79>>    \* "HELLO"
Secret == <<115, 101, 99, 114, 101, 116>>    \* "secret"
Other == <<111, 116, 104, 101, 114>>    \* "other"

PayloadByte(i) == IF i <= Len(Hello) THEN Hello[i] ELSE (i * 37) % 256

Payloads == {[i \in 1..n |-> PayloadByte(i)] : n \in 0..MaxPayloadLen}

EncodePassphrases == {Absent, Given(Secret)}
DecodePassphrases == {Absent, Given(<< >>), Given(Secret), Given(Other)}

\* <<width, height>> of the covers tried with each engine
Dims(a) ==
    CASE a = "lsb" -> {<<41, 1>>, <<67, 1>>}
      [] a = "pvd" -> {<<9, 10>>, <<9, 20>>}
      [] a = "dct" -> {<<312, 8>>, <<163, 9>>}
      [] a = "dwt" -> {<<16, 28>>, <<18, 26>>, <<32, 30>>}

CoverSeeds(a) == IF a \in {"lsb", "dct"} THEN {1} ELSE {0, 1}

BitsPerChannelOptions(a) ==
    CASE a = "lsb" -> 1..8
      [] a = "pvd" -> {1}
      [] a = "dct" -> {1, 2}
      [] a = "dwt" -> {1, 2}

ChannelLists(a) == IF a = "lsb" THEN {<<0>>, <<2, 0, 1>>} ELSE {<<0, 1, 2>>}

\* Byte i0 (0-based) of a raw RGBA cover: seed 0 is a flat grey image
CoverByte(seed, i0) ==
    IF i0 % RawChannels = 3 THEN 255
    ELSE IF seed = 0 THEN 128
    ELSE (i0 * 37 + (i0 \div 7) * 101 + 53) % 256

\* The buffer an engine works on: raw pixels (lsb, pvd), coefficients (dct),
\* doubled HH coefficients (dwt)
CoverBuffer(a, seed, w, h) ==
    CASE a \in {"lsb", "pvd"} -> [i \in 1..(w * h * RawChannels) |-> CoverByte(seed, i - 1)]
      [] a = "dct" -> [k \in 1..(DctBlocks(w, h) * 3 * CoeffsPerBlock) |->
                          IF seed = 0 THEN 0 ELSE ((k * 29 + 11) % 81) - 40]
      [] a = "dwt" -> [k \in 1..(3 * HalfOf(w) * HalfOf(h)) |->
                          IF seed = 0 THEN 0 ELSE ((k * 23 + 5) % 41) - 20]

NoEnc ==
    [encrypted |-> FALSE, salt |-> << >>, iv |-> << >>, authTag |-> << >>,
     headerBuffer |-> << >>, body |-> << >>, payloadBits |-> << >>]

NoOpts == [bitsPerChannel |-> 0, channels |-> << >>, passphrase |-> Absent]

NoMetrics == [capacityBits |-> 0, usedBits |-> 0]

NoDec ==
    [extractedBits |-> << >>, header |-> NoHeader, payloadBuf |-> << >>,
     candidate |-> << >>, decryptCalls |-> 0, digestChecks |-> 0,
     returned |-> FALSE, payload |-> << >>]

NoSz == [phase |-> "none"]
NoCr == [calls |-> << >>, drawn |-> 0]

NoFn == [phase |-> "none"]

NoHd == [phase |-> "none"]

Init ==
    /\ pc = "Idle"
    /\ algo = "none"
    /\ opts = NoOpts
    /\ width = 0
    /\ height = 0
    /\ data = << >>
    /\ payload = << >>
    /\ enc = NoEnc
    /\ modified = << >>
    /\ bitIdx = 0
    /\ capacityBits = 0
    /\ writes = 0
    /\ placed = << >>
    /\ metrics = NoMetrics
    /\ dopts = NoOpts
    /\ dec = NoDec
    /\ error = ""
    /\ trail = <<"Idle">>
    /\ sz = NoSz
    /\ hd = NoHd
    /\ cr = NoCr
    /\ fn = NoFn

----------------------------------------------------------------------------
(* Encode *)

\* The call starts: options are read, the payload is (optionally) encrypted,
\* the header is built and the cover is decoded to its raw buffer.  encodePVD
\* goes straight to its embedding loop; the other three check the capacity.
EncodeStart ==
    /\ pc = "Idle"
    /\ \E a \in Algos :
       \E dim \in Dims(a), seed \in CoverSeeds(a), p \in Payloads,
          b \in BitsPerChannelOptions(a), chs \in ChannelLists(a),
          pw \in EncodePassphrases :
          LET o == [bitsPerChannel |-> b, channels |-> chs, passphrase |-> pw]
              w == IF a = "dct" THEN AlignDown8(dim[1]) ELSE dim[1]
              h == IF a = "dct" THEN AlignDown8(dim[2]) ELSE dim[2]
              buf == CoverBuffer(a, seed, w, h)
          IN  /\ algo' = a
              /\ opts' = o
              /\ width' = w
              /\ height' = h
              /\ data' = buf
              /\ modified' = buf
              /\ payload' = p
              /\ enc' = BuildPayload(p, o, 1, 2)
              /\ pc' = IF a = "pvd" THEN "Embedding" ELSE "ValidatingCapacity"
    /\ trail' = Append(trail, pc')
    /\ UNCHANGED <<bitIdx, capacityBits, writes, placed, metrics, dopts, dec, error, sz, hd, cr, fn>>

\* Capacity as the encoder computes it before its loop (lsb, dct, dwt)
EncoderCapacity(a, w, h, o) ==
    CASE a = "lsb" -> LsbCapacityBits(w * h, Len(o.channels), BitsPerChannelOf(o))
      [] a = "dct" -> DctCapacityBits(w, h, BitsPerChannelOf(o))
      [] a = "dwt" -> DwtCapacityBits(w, h, BitsPerChannelOf(o))

\* A capacity test that is off by one: it also refuses an exact fit
CapacityExceededAtLimit(a, nbits, cap, idx) ==
    IF a = "pvd" THEN idx < nbits ELSE nbits >= cap

\* if (payloadBits.length > capacityBits) throw ...   (lsb, dct, dwt)
\* if (bitIdx < payloadBits.length) throw ...          (pvd, after its loop)
CapacityExceeded(a, nbits, cap, idx) ==
    IF a = "pvd" THEN idx < nbits ELSE nbits > cap

ValidateCapacity ==
    /\ pc = "ValidatingCapacity"
    /\ LET cap == IF algo = "pvd" THEN capacityBits
                  ELSE EncoderCapacity(algo, width, height, opts)
           over == CapacityExceeded(algo, Len(enc.payloadBits), cap, bitIdx)
       IN  /\ capacityBits' = cap
           /\ error' = IF over THEN "CapacityExceeded" ELSE ""
           /\ pc' = IF over THEN "Failed"
                    ELSE IF algo = "pvd" THEN "EncDone" ELSE "Embedding"
           /\ metrics' = IF ~over /\ algo = "pvd"
                         THEN [capacityBits |-> cap, usedBits |-> bitIdx]
                         ELSE metrics
    /\ trail' = Append(trail, pc')
    /\ UNCHANGED <<algo, opts, width, height, data, payload, enc, modified, bitIdx,
                   writes, placed, dopts, dec, sz, hd, cr, fn>>

\* The embedding loop of the selected engine, whole.
\* r = [modified, bitIdx, writes, placed, totalCapacity]
EmbedResult(a, buf, w, h, o, bits) ==
    CASE a = "lsb" ->
           LET t == LsbEmbedPixels([data |-> buf, bitIdx |-> 0, writes |-> 0], 0, w * h,
                                   o.channels, BitsPerChannelOf(o), bits)
           IN  [modified |-> t.data, bitIdx |-> t.bitIdx, writes |-> t.writes,
                placed |-> [k \in 1..t.bitIdx |-> k - 1], totalCapacity |-> 0]
      [] a = "pvd" ->
           LET t == PvdEmbedPairs([modified |-> buf, bitIdx |-> 0, totalCapacity |-> 0,
                                   writes |-> 0], buf, 0, 3 * h * PairsPerRow(w), w, h, bits)
           IN  [modified |-> t.modified, bitIdx |-> t.bitIdx, writes |-> t.writes,
                placed |-> [k \in 1..t.bitIdx |-> k - 1], totalCapacity |-> t.totalCapacity]
      [] a = "dct" ->
           LET t == DctEmbedBlocks([modified |-> buf, bitIdx |-> 0, writes |-> 0,
                                    placed |-> << >>], 0, DctBlocks(w, h) * 3, bits)
           IN  [modified |-> t.modified, bitIdx |-> t.bitIdx, writes |-> t.writes,
                placed |-> t.placed, totalCapacity |-> 0]
      [] a = "dwt" ->
           LET t == DwtEmbedChannels([modified |-> buf, bitIdx |-> 0, writes |-> 0,
                                      placed |-> << >>], 0, w, h, BitsPerChannelOf(o), bits)
           IN  [modified |-> t.modified, bitIdx |-> t.bitIdx, writes |-> t.writes,
                placed |-> t.placed, totalCapacity |-> 0]

Embed ==
    /\ pc = "Embedding"
    /\ \E r \in {EmbedResult(algo, data, width, height, opts, enc.payloadBits)} :
           /\ modified' = r.modified
           /\ bitIdx' = r.bitIdx
           /\ writes' = r.writes
           /\ placed' = r.placed
           /\ capacityBits' = IF algo = "pvd" THEN r.totalCapacity ELSE capacityBits
           /\ metrics' = IF algo = "pvd" THEN metrics
                         ELSE [capacityBits |-> capacityBits,
                               usedBits |-> Len(enc.payloadBits)]
    /\ pc' = IF algo = "pvd" THEN "ValidatingCapacity" ELSE "EncDone"
    /\ trail' = Append(trail, pc')
    /\ UNCHANGED <<algo, opts, width, height, data, payload, enc, dopts, dec, error, sz, hd, cr, fn>>

----------------------------------------------------------------------------
(* Between encode and decode: the stego image may be altered *)

\* Positions (1-based) in the stego buffer where one element is altered
TamperPositions(a) == IF a \in {"lsb", "pvd"} THEN {10, 17, 33} ELSE {40, 72}

\* One byte of the image is changed (pixels), or one coefficient is moved
\* by one quantization step (dct, dwt).
Tampered(a, buf, i) ==
    CASE a \in {"lsb", "pvd"} -> [buf EXCEPT ![i] = 255 - buf[i]]
      [] a = "dct" -> [buf EXCEPT ![i] = buf[i] + DctQuantStep]
      [] a = "dwt" -> [buf EXCEPT ![i] = buf[i] + 2 * DwtQuantStep]

Tamper ==
    /\ pc = "EncDone"
    /\ \E i \in TamperPositions(algo) : modified' = Tampered(algo, modified, i)
    /\ pc' = "Tampered"
    /\ trail' = Append(trail, pc')
    /\ UNCHANGED <<algo, opts, width, height, data, payload, enc, bitIdx, capacityBits,
                   writes, placed, metrics, dopts, dec, error, sz, hd, cr, fn>>

----------------------------------------------------------------------------
(* Decode *)

\* The decode call starts on the stego buffer, with the encode's
\* bitsPerChannel and channels and a passphrase option of its own.
DecodeStart ==
    /\ pc \in {"EncDone", "Tampered"}
    /\ \E pw \in DecodePassphrases :
          dopts' = [bitsPerChannel |-> opts.bitsPerChannel, channels |-> opts.channels,
                    passphrase |-> pw]
    /\ dec' = NoDec
    /\ pc' = "ExtractingBits"
    /\ trail' = Append(trail, pc')
    /\ UNCHANGED <<algo, opts, width, height, data, payload, enc, modified, bitIdx,
                   capacityBits, writes, placed, metrics, error, sz, hd, cr, fn>>

\* The extraction loop of the selected decoder, whole
ExtractedBits(a, buf, w, h, o) ==
    CASE a = "lsb" -> LsbExtractBits(buf, w * h, o.channels, BitsPerChannelOf(o))
      [] a = "pvd" -> PvdExtractBits(buf, 0, 3 * h * PairsPerRow(w), w, h)
      [] a = "dct" -> DctExtractBits(buf, DctBlocks(w, h))
      [] a = "dwt" -> DwtExtractBits(buf, w, h)

ExtractBits ==
    /\ pc = "ExtractingBits"
    /\ dec' = [dec EXCEPT !.extractedBits = ExtractedBits(algo, modified, width, height, dopts)]
    /\ pc' = "ParsingEnvelope"
    /\ trail' = Append(trail, pc')
    /\ UNCHANGED <<algo, opts, width, height, data, payload, enc, modified, bitIdx,
                   capacityBits, writes, placed, metrics, dopts, error, sz, hd, cr, fn>>

ParsedEnvelope(a, bits) ==
    CASE a = "lsb" -> LsbParseEnvelope(bits)
      [] a = "pvd" -> PvdParseEnvelope(bits)
      [] a = "dct" -> DctParseEnvelope(bits)
      [] a = "dwt" -> DwtParseEnvelope(bits)

\* Header and payload bytes are read; an encrypted header without a
\* passphrase ends the call before decryptWithPassphrase is called.
ParseEnvelope ==
    /\ pc = "ParsingEnvelope"
    /\ \E r \in {ParsedEnvelope(algo, dec.extractedBits)} :
       LET kind == IF r.err # "" THEN r.err
                   ELSE IF r.header.encrypted /\ PassphraseMissing(dopts.passphrase)
                   THEN "PassphraseRequired"
                   ELSE ""
       IN  /\ dec' = [dec EXCEPT !.header = r.header, !.payloadBuf = r.payloadBuf,
                                 !.candidate = r.payloadBuf]
           /\ error' = kind
           /\ pc' = IF kind # "" THEN "Failed"
                    ELSE IF r.header.encrypted THEN "Decrypting"
                    ELSE "VerifyingIntegrity"
    /\ trail' = Append(trail, pc')
    /\ UNCHANGED <<algo, opts, width, height, data, payload, enc, modified, bitIdx,
                   capacityBits, writes, placed, metrics, dopts, sz, hd, cr, fn>>

\* A decoder that returns the decrypted bytes without the digest check
DecryptThenReturn ==
    /\ pc = "Decrypting"
    /\ \E r \in {decryptWithPassphrase(dec.payloadBuf, dopts.passphrase.bytes,
                                         dec.header.salt, dec.header.iv, dec.header.authTag)} :
       LET kind == IF ~dec.header.hasCrypto THEN "TypeError"
                   ELSE IF ~r.ok THEN "AuthenticationFailed"
                   ELSE ""
       IN  /\ dec' = [dec EXCEPT !.decryptCalls = dec.decryptCalls + 1,
                                 !.candidate = IF kind = "" THEN r.plaintext ELSE << >>,
                                 !.returned = (kind = ""),
                                 !.payload = IF kind = "" THEN r.plaintext ELSE << >>]
           /\ error' = kind
           /\ pc' = IF kind # "" THEN "Failed" ELSE "DecDone"
    /\ trail' = Append(trail, pc')
    /\ UNCHANGED <<algo, opts, width, height, data, payload, enc, modified, bitIdx,
                   capacityBits, writes, placed, metrics, dopts, sz, hd, cr, fn>>

\* decryptWithPassphrase(payloadBuf, passphrase, header.salt, header.iv,
\* header.authTag); a header parsed from fewer than 85 bytes has no salt, and
\* pbkdf2Sync throws a TypeError on the undefined salt.
Decrypt ==
    /\ pc = "Decrypting"
    /\ \E r \in {decryptWithPassphrase(dec.payloadBuf, dopts.passphrase.bytes,
                                         dec.header.salt, dec.header.iv, dec.header.authTag)} :
       LET kind == IF ~dec.header.hasCrypto THEN "TypeError"
                   ELSE IF ~r.ok THEN "AuthenticationFailed"
                   ELSE ""
       IN  /\ dec' = [dec EXCEPT !.decryptCalls = dec.decryptCalls + 1,
                                 !.candidate = IF kind = "" THEN r.plaintext ELSE << >>]
           /\ error' = kind
           /\ pc' = IF kind # "" THEN "Failed" ELSE "VerifyingIntegrity"
    /\ trail' = Append(trail, pc')
    /\ UNCHANGED <<algo, opts, width, height, data, payload, enc, modified, bitIdx,
                   capacityBits, writes, placed, metrics, dopts, sz, hd, cr, fn>>

\* The digest of the recovered bytes is compared with the header's; only
\* then is the payload returned.
VerifyIntegrity ==
    /\ pc = "VerifyingIntegrity"
    /\ LET ok == DigestMatches(dec.candidate, dec.header)
       IN  /\ dec' = [dec EXCEPT !.digestChecks = dec.digestChecks + 1,
                                 !.returned = ok,
                                 !.payload = IF ok THEN dec.candidate ELSE << >>]
           /\ error' = IF ok THEN "" ELSE "IntegrityMismatch"
           /\ pc' = IF ok THEN "DecDone" ELSE "Failed"
    /\ trail' = Append(trail, pc')
    /\ UNCHANGED <<algo, opts, width, height, data, payload, enc, modified, bitIdx,
                   capacityBits, writes, placed, metrics, dopts, sz, hd, cr, fn>>

----------------------------------------------------------------------------

Next ==
    \/ EncodeStart
    \/ ValidateCapacity
    \/ Embed
    \/ Tamper
    \/ DecodeStart
    \/ ExtractBits
    \/ ParseEnvelope
    \/ Decrypt
    \/ VerifyIntegrity

Spec == Init /\ [][Next]_vars

----------------------------------------------------------------------------
(* The same calls followed on dimensions and lengths only, so that covers *)
(* and payloads of real size are reached.  The contents are left out: the *)
(* decoder is taken to extract, as far as its loop goes, the bits the      *)
(* encoder embedded.                                                       *)

SizeAlgos == {"lsb", "dct", "dwt"}

SizeDims == {<<64, 64>>, <<100, 50>>, <<400, 300>>, <<1000, 1000>>}

SizePayloadLens == {5, 200, 1495, 14900, 124959, 124960, 300000}

SizeBitsPerChannel(a) == IF a = "lsb" THEN {1, 3, 8} ELSE {1, 2}

SizeChannelCounts(a) == IF a = "lsb" THEN {1, 3} ELSE {3}

\* headerSize of the header buildHeader returns for the encoders
HeaderSizeFor(encrypted) == IF encrypted THEN EncryptedHeaderBytes ELSE PlainHeaderBytes

\* The guards of decodeLSB on the number of extracted bits, for the header
\* size and payload length the parsed header declares
LsbLengthError(nExtracted, headerSize, payloadBytes) ==
    IF nExtracted < PlainHeaderBytes * 8 THEN "TruncatedHeader"
    ELSE IF nExtracted < headerSize * 8 THEN "TruncatedHeader"
    ELSE IF nExtracted < headerSize * 8 + payloadBytes * 8 THEN "NotEnoughData"
    ELSE ""

\* Number of bits a decoder's extraction loop collects from a w x h image
ExtractCount(a, w, h, nch, bpc) ==
    CASE a = "lsb" -> LsbExtractCount(w * h, nch, bpc)
      [] a = "dct" -> DctExtractCount(DctBlocks(w, h))
      [] a = "dwt" -> 3 * HalfOf(w) * HalfOf(h)

\* Covers narrower or lower than one 8 x 8 block, for encodeDCT
DctSmallDims == {<<7, 64>>, <<64, 5>>, <<3, 3>>}

SizeDimsOf(a) == IF a = "dct" THEN SizeDims \cup DctSmallDims ELSE SizeDims

\* What stops encodeDCT before it builds the header: metadata without a width
\* or a height ('Invalid image dimensions'); or, the metadata test passed, an
\* aligned width or height of 0 handed to sharp's resize, which refuses a
\* size that is not a positive integer with an error of its own.
DctDimensionError(metaWidth, metaHeight) ==
    IF metaWidth = 0 \/ metaHeight = 0 THEN "InvalidDimensions"
    ELSE IF AlignDown8(metaWidth) = 0 \/ AlignDown8(metaHeight) = 0
    THEN "ResizeRejected"
    ELSE ""

SizeEncode ==
    /\ sz.phase = "none"
    /\ \E a \in SizeAlgos :
       \E dim \in SizeDimsOf(a), n \in SizePayloadLens, b \in SizeBitsPerChannel(a),
          c \in SizeChannelCounts(a), e \in BOOLEAN :
          LET w == IF a = "dct" THEN AlignDown8(dim[1]) ELSE dim[1]
              h == IF a = "dct" THEN AlignDown8(dim[2]) ELSE dim[2]
              o == [bitsPerChannel |-> b, channels |-> [i \in 1..c |-> i - 1],
                    passphrase |-> Absent]
              early == IF a = "dct" THEN DctDimensionError(dim[1], dim[2]) ELSE ""
              nbits == 8 * (HeaderSizeFor(e) + n)
              cap == EncoderCapacity(a, w, h, o)
              over == CapacityExceeded(a, nbits, cap, 0)
          IN  IF early # ""
              THEN sz' = [phase |-> "rejected",
                          algo |-> a, width |-> w, height |-> h, bitsPerChannel |-> b,
                          channelCount |-> c, encrypted |-> e, payloadLen |-> n,
                          bitstreamLen |-> 0, capacityBits |-> 0,
                          error |-> early, extracted |-> 0,
                          metaWidth |-> dim[1], metaHeight |-> dim[2],
                          capacityComputed |-> FALSE]
              ELSE sz' = [phase |-> IF over THEN "rejected" ELSE "encoded",
                          algo |-> a, width |-> w, height |-> h, bitsPerChannel |-> b,
                          channelCount |-> c, encrypted |-> e, payloadLen |-> n,
                          bitstreamLen |-> nbits, capacityBits |-> cap,
                          error |-> IF over THEN "CapacityExceeded" ELSE "",
                          extracted |-> 0,
                          metaWidth |-> dim[1], metaHeight |-> dim[2],
                          capacityComputed |-> TRUE]
    /\ UNCHANGED <<pc, algo, opts, width, height, data, payload, enc, modified, bitIdx,
                   capacityBits, writes, placed, metrics, dopts, dec, error, trail, hd, cr, fn>>

SizeDecode ==
    /\ sz.phase = "encoded"
    /\ LET n == ExtractCount(sz.algo, sz.width, sz.height, sz.channelCount,
                             sz.bitsPerChannel)
           cut == n < sz.bitstreamLen
           kind == IF sz.algo = "lsb"
                   THEN LsbLengthError(n, HeaderSizeFor(sz.encrypted), sz.payloadLen)
                   ELSE ""
       IN  sz' = [sz EXCEPT !.phase = IF kind # "" THEN "decodeFailed"
                                      ELSE IF cut THEN "decodedCut" ELSE "decoded",
                            !.extracted = n, !.error = kind]
    /\ UNCHANGED <<pc, algo, opts, width, height, data, payload, enc, modified, bitIdx,
                   capacityBits, writes, placed, metrics, dopts, dec, error, trail, hd, cr, fn>>

NextSize == SizeEncode \/ SizeDecode

SizeSpec == Init /\ [][NextSize]_vars

----------------------------------------------------------------------------
(* The envelope codec applied to arguments of any shape *)

\* An optional buffer of about n bytes: absent, empty, one short, exact, one long
OptionalBuffers(n) ==
    {Absent} \cup {Given(RandomBytes(k, 3)) : k \in {0, n - 1, n, n + 1}}

HeaderPayloadLengths == {0, 5, 70000, 16909060}

BuildHeaderCall ==
    /\ hd.phase = "none"
    /\ \E e \in BOOLEAN, n \in HeaderPayloadLengths, s \in OptionalBuffers(SaltBytes),
          i \in OptionalBuffers(IvBytes), t \in OptionalBuffers(TagBytes),
          p \in {<< >>, Hello} :
          LET f == [payloadLength |-> n, encrypted |-> e, salt |-> s, iv |-> i,
                    authTag |-> t]
          IN  hd' = [phase |-> "built", args |-> f, plaintext |-> p,
                     out |-> buildHeader(f, p)]
    /\ UNCHANGED <<pc, algo, opts, width, height, data, payload, enc, modified, bitIdx,
                   capacityBits, writes, placed, metrics, dopts, dec, error, trail, sz, cr, fn>>

\* Lengths of the buffer handed to parseHeader, around the two header sizes.
ParseLengths == {0, 4, 5, 40, 41, 60, 84, 85, 86, 90}

\* What became of the header before it is parsed: nothing, a changed magic
\* byte, or further bits set in the flags byte.
HeaderDamages == {"none", "magic", "flags"}

Trailer == <<170, 85, 170, 85, 170, 85>>

DamagedHeader(buf, damage) ==
    [i \in 1..Len(buf) |->
        IF damage = "magic" /\ i = 2 THEN 88
        ELSE IF damage = "flags" /\ i = 5 THEN buf[i] + 6
        ELSE buf[i]]

ParseInput(headerBuffer, k, damage) ==
    LET whole == DamagedHeader(headerBuffer \o Trailer, damage)
    IN  Slice(whole, 0, Min(k, Len(whole)))

ParseHeaderCall ==
    /\ hd.phase = "built"
    /\ hd.out.err = ""
    /\ \E k \in ParseLengths, damage \in HeaderDamages :
          \E b \in {ParseInput(hd.out.headerBuffer, k, damage)} :
             hd' = [phase |-> "parsed", args |-> hd.args, plaintext |-> hd.plaintext,
                    out |-> hd.out, input |-> b, parsed |-> parseHeader(b)]
    /\ UNCHANGED <<pc, algo, opts, width, height, data, payload, enc, modified, bitIdx,
                   capacityBits, writes, placed, metrics, dopts, dec, error, trail, sz, cr, fn>>

NextHeader == BuildHeaderCall \/ ParseHeaderCall

HeaderSpec == Init /\ [][NextHeader]_vars

----------------------------------------------------------------------------
(* The crypto layer over several calls.  crypto.randomBytes is taken as a
   source that never gives the same bytes twice: cr.drawn counts its draws,
   and each draw is a number no earlier draw had. *)

MaxEncryptCalls == 3

EncryptPlaintexts == {<< >>, Hello, <<PayloadByte(1)>>}

EncryptPassphrases == {Secret, Other}

\* encryptWithPassphrase(plaintextBuf, passphrase), as an encoder calls it:
\* the caller passes the plaintext and the passphrase, nothing else.
EncryptCall ==
    /\ Len(cr.calls) < MaxEncryptCalls
    /\ \E plaintextBuf \in EncryptPlaintexts, passphrase \in EncryptPassphrases :
          \E e \in {encryptWithPassphrase(plaintextBuf, passphrase,
                                          cr.drawn + 1, cr.drawn + 2)} :
             cr' = [calls |-> Append(cr.calls,
                                     [plaintextBuf |-> plaintextBuf,
                                      passphrase |-> passphrase,
                                      key |-> Pbkdf2(passphrase, e.salt),
                                      salt |-> e.salt, iv |-> e.iv,
                                      ciphertext |-> e.ciphertext,
                                      authTag |-> e.authTag]),
                    drawn |-> cr.drawn + 2]
    /\ UNCHANGED <<pc, algo, opts, width, height, data, payload, enc, modified, bitIdx,
                   capacityBits, writes, placed, metrics, dopts, dec, error, trail, sz, hd, fn>>

NextCrypto == EncryptCall

CryptoSpec == Init /\ [][NextCrypto]_vars

----------------------------------------------------------------------------
(* One pixel pair through embedInPair and extractFromPair *)

PairPixels == {0, 1, 3, 4, 60, 100, 110, 128, 200, 251, 254, 255}

\* The n bits of v, most significant first
BitsOf(v, n) == [k \in 1..n |-> (v \div Pow2(n - k)) % 2]

EmbedPairCall ==
    /\ fn.phase = "none"
    /\ \E p1 \in PairPixels, p2 \in PairPixels :
       \E v \in 0..(Pow2(getRangeInfo(p2 - p1).bits) - 1) :
          LET info == getRangeInfo(p2 - p1)
              dataBits == BitsOf(v, info.bits)
              r == embedInPair(p1, p2, dataBits)
          IN  fn' = [phase |-> "pair", p1 |-> p1, p2 |-> p2, value |-> v,
                     dataBits |-> dataBits, rangeStart |-> info.start, out |-> r,
                     read |-> extractFromPair(r.p1, r.p2)]
    /\ UNCHANGED <<pc, algo, opts, width, height, data, payload, enc, modified, bitIdx,
                   capacityBits, writes, placed, metrics, dopts, dec, error, trail, sz, hd, cr>>

NextPair == EmbedPairCall

PairSpec == Init /\ [][NextPair]_vars

----------------------------------------------------------------------------
(* One pixel pair that receives the last, partial chunk of the bitstream:
   encodePVD passes payloadBits.slice(bitIdx, bitIdx + capacity), which holds
   fewer bits than the capacity of the pair *)

EmbedPartialPairCall ==
    /\ fn.phase = "none"
    /\ \E p1 \in PairPixels, p2 \in PairPixels :
       \E k \in 1..(getRangeInfo(p2 - p1).bits - 1) :
       \E v \in 0..(Pow2(k) - 1) :
          LET info == getRangeInfo(p2 - p1)
              dataBits == BitsOf(v, k)
              r == embedInPair(p1, p2, dataBits)
          IN  fn' = [phase |-> "partial", p1 |-> p1, p2 |-> p2, value |-> v,
                     dataBits |-> dataBits, capacity |-> info.bits, out |-> r,
                     read |-> extractFromPair(r.p1, r.p2)]
    /\ UNCHANGED <<pc, algo, opts, width, height, data, payload, enc, modified, bitIdx,
                   capacityBits, writes, placed, metrics, dopts, dec, error, trail, sz, hd, cr>>

NextPartialPair == EmbedPartialPairCall

PartialPairSpec == Init /\ [][NextPartialPair]_vars

----------------------------------------------------------------------------
(* One high-high coefficient through the embedding step of encodeDWT and the
   reading step of decodeDWT.  Coefficients are kept doubled, as everywhere:
   the Haar transform of integer samples gives multiples of one half. *)

DwtCoeffs == -40..40

EmbedCoeffCall ==
    /\ fn.phase = "none"
    /\ \E c2 \in DwtCoeffs, bit \in {0, 1} :
          \E w \in {DwtEmbedCoeff(c2, bit)} :
             fn' = [phase |-> "coeff", coeff2 |-> c2, bit |-> bit, written2 |-> w,
                    read |-> DwtReadBit(w)]
    /\ UNCHANGED <<pc, algo, opts, width, height, data, payload, enc, modified, bitIdx,
                   capacityBits, writes, placed, metrics, dopts, dec, error, trail, sz, hd, cr>>

NextCoeff == EmbedCoeffCall

CoeffSpec == Init /\ [][NextCoeff]_vars

----------------------------------------------------------------------------
(* One 2 x 2 block of one channel through encodeDWT and decodeDWT *)

BlockPixels == {0, 1, 2, 100, 101, 128, 254, 255}

EmbedBlockCall ==
    /\ fn.phase = "none"
    /\ \E a \in BlockPixels, b \in BlockPixels, c \in BlockPixels, d \in BlockPixels,
          bit \in {0, 1} :
          \E stego \in {DwtEncodeChannel(<<a, b, c, d>>, 2, 2, <<bit>>)} :
             fn' = [phase |-> "block", pixels |-> <<a, b, c, d>>, bit |-> bit,
                    coeff2 |-> haarDWT2D(<<a, b, c, d>>, 2, 2).HH[1],
                    stego |-> stego,
                    reread2 |-> haarDWT2D(stego, 2, 2).HH[1],
                    read |-> DwtDecodeChannel(stego, 2, 2)[1]]
    /\ UNCHANGED <<pc, algo, opts, width, height, data, payload, enc, modified, bitIdx,
                   capacityBits, writes, placed, metrics, dopts, dec, error, trail, sz, hd, cr>>

NextBlock == EmbedBlockCall

BlockSpec == Init /\ [][NextBlock]_vars

----------------------------------------------------------------------------
(* One channel of even width and height through haarDWT2D and, with the
   subbands untouched, haarIDWT2D and the write-back of encodeDWT *)

HaarWidePixels == {0, 7, 200}

HaarChannels ==
    [w : {2}, h : {2}, px : [1..4 -> BlockPixels]]
      \cup [w : {4}, h : {2}, px : [1..8 -> HaarWidePixels]]

HaarRoundTripCall ==
    /\ fn.phase = "none"
    /\ \E c \in HaarChannels :
          \E sub \in {haarDWT2D(c.px, c.w, c.h)} :
             fn' = [phase |-> "haar", pixels |-> c.px, width |-> c.w, height |-> c.h,
                    back4 |-> haarIDWT2D(sub.LL, sub.LH, sub.HL, sub.HH,
                                         sub.halfWidth, sub.halfHeight),
                    stego |-> DwtEncodeChannel(c.px, c.w, c.h, << >>)]
    /\ UNCHANGED <<pc, algo, opts, width, height, data, payload, enc, modified, bitIdx,
                   capacityBits, writes, placed, metrics, dopts, dec, error, trail, sz, hd, cr>>

NextHaar == HaarRoundTripCall

HaarSpec == Init /\ [][NextHaar]_vars

----------------------------------------------------------------------------
(* One DCT coefficient through the embedding step of encodeDCT and the
   reading step of decodeDCT *)

DctCoeffs == -60..60

EmbedDctCoeffCall ==
    /\ fn.phase = "none"
    /\ \E coeff \in DctCoeffs, bit \in {0, 1} :
          \E w \in {DctEmbedCoeff(coeff, bit)} :
             fn' = [phase |-> "dctCoeff", coeff |-> coeff, bit |-> bit,
                    q |-> TruncDiv(coeff, DctQuantStep), written |-> w,
                    read |-> DctReadBit(w)]
    /\ UNCHANGED <<pc, algo, opts, width, height, data, payload, enc, modified, bitIdx,
                   capacityBits, writes, placed, metrics, dopts, dec, error, trail, sz, hd, cr>>

NextDctCoeff == EmbedDctCoeffCall

DctCoeffSpec == Init /\ [][NextDctCoeff]_vars

----------------------------------------------------------------------------
(* One DCT coefficient written by encodeDCT, turned into pixels rounded to
   integers, and recomputed by decodeDCT from those pixels: the recomputed
   coefficient is the written one plus a drift.  Drifts are whole numbers
   below half the quantization step. *)

DctDrifts == -3..3

ReadDriftedCoeffCall ==
    /\ fn.phase = "none"
    /\ \E coeff \in DctCoeffs, bit \in {0, 1}, drift \in DctDrifts :
          \E w \in {DctEmbedCoeff(coeff, bit)} :
             fn' = [phase |-> "drift", coeff |-> coeff, bit |-> bit, written |-> w,
                    drift |-> drift, recomputed |-> w + drift,
                    read |-> DctReadBit(w + drift)]
    /\ UNCHANGED <<pc, algo, opts, width, height, data, payload, enc, modified, bitIdx,
                   capacityBits, writes, placed, metrics, dopts, dec, error, trail, sz, hd, cr>>

NextDrift == ReadDriftedCoeffCall

DriftSpec == Init /\ [][NextDrift]_vars

----------------------------------------------------------------------------
(* One channel of odd width or odd height through encodeDWT *)

OddPixels == {7, 100, 200}

OddChannels ==
    [w : {3}, h : {2}, px : [1..6 -> OddPixels]]
      \cup [w : {2}, h : {3}, px : [1..6 -> OddPixels]]
      \cup [w : {3}, h : {3}, px : [1..9 -> OddPixels]]

EmbedOddCall ==
    /\ fn.phase = "none"
    /\ \E c \in OddChannels, bits \in {<< >>, <<1>>} :
          \E m \in {DwtModifiedChannelData(c.px, c.w, c.h, bits)} :
             fn' = [phase |-> "odd", pixels |-> c.px, width |-> c.w, height |-> c.h,
                    bits |-> bits, halfWidth |-> HalfOf(c.w), halfHeight |-> HalfOf(c.h),
                    modifiedChannelData |-> m,
                    stego |-> DwtEncodeChannel(c.px, c.w, c.h, bits)]
    /\ UNCHANGED <<pc, algo, opts, width, height, data, payload, enc, modified, bitIdx,
                   capacityBits, writes, placed, metrics, dopts, dec, error, trail, sz, hd, cr>>

NextOdd == EmbedOddCall

OddSpec == Init /\ [][NextOdd]_vars

----------------------------------------------------------------------------
(* Properties *)

InTrail(x) == \E i \in 1..Len(trail) : trail[i] = x

\* The encode call has ended and no decode has started
EncodeEnded == pc \in {"EncDone", "Failed"} /\ ~InTrail("ExtractingBits")

\* A decode call has ended
DecodeEnded == InTrail("ExtractingBits") /\ pc \in {"DecDone", "Failed"}

\* The stego image reached the decoder as the encoder produced it
Intact == ~InTrail("Tampered")

\* C1: LSB round trip.  Whenever encodeLSB accepts a payload (its bitstream
\* 8 * (headerSize + |P|) is at most pixelCount * channelCount *
\* bitsPerChannel), decodeLSB on the produced pixels extracts the whole
\* bitstream and passes its length checks, so that it returns the payload.
C1_LsbRoundTrip ==
    (sz.phase \in {"decoded", "decodedCut", "decodeFailed"} /\ sz.algo = "lsb"
        /\ sz.bitstreamLen <= sz.capacityBits)
    => (sz.phase = "decoded" /\ sz.error = "" /\ sz.extracted >= sz.bitstreamLen)

\* C2: PVD round trip.  For every bitstream encodePVD accepts, the bits
\* decodePVD extracts from the stego pixels start with exactly that
\* bitstream, and the decode returns the original payload.
C2_PvdRoundTrip ==
    (algo = "pvd" /\ Intact /\ DecodeEnded /\ dopts.passphrase = opts.passphrase)
    => /\ Slice(dec.extractedBits, 0, Len(enc.payloadBits)) = enc.payloadBits
       /\ pc = "DecDone"
       /\ dec.payload = payload

\* The capacity the specification states for each engine
StatedCapacity ==
    CASE algo = "lsb" -> width * height * Len(opts.channels) * BitsPerChannelOf(opts)
      [] algo = "dct" -> (width \div 8) * (height \div 8) * 6 * 3 * BitsPerChannelOf(opts)
      [] algo = "dwt" -> (width \div 2) * (height \div 2) * 3 * BitsPerChannelOf(opts)
      [] algo = "pvd" -> PvdCapacityBits(data, 0, 3 * height * PairsPerRow(width), width, height)
      [] OTHER -> 0

\* C3: capacity boundary.  Each of the four encoders accepts a bitstream
\* exactly when its length is at most the capacity: a bitstream of capacity
\* bits is accepted, one of capacity + 1 bits (or more) is rejected with
\* CapacityExceeded.
C3_CapacityBoundary ==
    EncodeEnded =>
        /\ (Len(enc.payloadBits) <= StatedCapacity) => (pc = "EncDone" /\ error = "")
        /\ (Len(enc.payloadBits) > StatedCapacity)
              => (pc = "Failed" /\ error = "CapacityExceeded")

\* C3 witness: an encode accepted with a bitstream of exactly capacity bits
C3_ExactFitAccepted ==
    EncodeEnded /\ pc = "EncDone" /\ Len(enc.payloadBits) = StatedCapacity

\* C4: the capacity check comes before the first write.  An encode is in
\* Embedding only after ValidatingCapacity, and an encode that ends with
\* CapacityExceeded has written no element of any buffer.
C4_CheckBeforeMutation ==
    /\ (pc = "Embedding" => InTrail("ValidatingCapacity"))
    /\ (EncodeEnded /\ error = "CapacityExceeded") => (writes = 0 /\ modified = data)

\* C5: encodeLSB overwrites exactly bitstream.length low-order bit
\* positions: writes * bitsPerChannel positions are overwritten, and none of
\* them lies beyond the last bit of the bitstream.
C5_LsbNoPadding ==
    (algo = "lsb" /\ EncodeEnded /\ pc = "EncDone")
    => writes * BitsPerChannelOf(opts) = Len(enc.payloadBits)

\* C6: whenever encodeDCT or encodeDWT succeeds, for every bitsPerChannel,
\* every bit of the bitstream has been written into one coefficient in
\* traversal order and the reported usedBits is the number of bits placed.
C6_TransformPlacesAllBits ==
    (algo \in {"dct", "dwt"} /\ EncodeEnded /\ pc = "EncDone")
    => /\ placed = [k \in 1..Len(enc.payloadBits) |-> k - 1]
       /\ metrics.usedBits = Len(placed)

\* C7: integrity.  A decode that returns a payload returns one whose digest
\* equals the digest stored in the parsed header; every other decode ends
\* as a failure with an error and returns nothing.
C7_ReturnedPayloadHasStoredDigest ==
    /\ dec.returned => (pc = "DecDone" /\ Sha256(dec.payload) = dec.header.sha256)
    /\ DecodeEnded => IF pc = "DecDone" THEN dec.returned /\ error = ""
                      ELSE ~dec.returned /\ error # "" /\ dec.payload = << >>

\* C7 witness: a stego image with one byte changed is refused with
\* IntegrityMismatch
C7_TamperedRefused ==
    DecodeEnded /\ ~Intact /\ pc = "Failed" /\ error = "IntegrityMismatch"

\* C8: decoding an encrypted stego image with a passphrase other than the
\* encode's fails with AuthenticationFailed, raised by the tag verification
\* before any digest comparison, and returns no plaintext.
C8_WrongPassphraseFailsAuthentication ==
    (DecodeEnded /\ Intact /\ enc.encrypted /\ Truthy(dopts.passphrase)
        /\ dopts.passphrase # opts.passphrase)
    => /\ pc = "Failed"
       /\ error = "AuthenticationFailed"
       /\ dec.digestChecks = 0
       /\ ~dec.returned

\* The decoder has parsed a header with the encrypted flag set and the
\* decode call supplies no passphrase
EncryptedWithoutPassphrase ==
    /\ InTrail("ParsingEnvelope")
    /\ pc # "ParsingEnvelope"
    /\ dec.header.encrypted
    /\ ~Truthy(dopts.passphrase)

\* C9 as stated: when the parsed header has the encrypted flag set and no
\* passphrase is supplied, every decoder fails with PassphraseRequired
\* before any key derivation and returns no payload.
C9_PassphraseRequired ==
    EncryptedWithoutPassphrase
    => /\ pc = "Failed"
       /\ error = "PassphraseRequired"
       /\ dec.decryptCalls = 0
       /\ ~dec.returned

\* C9 amended: in that case every decoder fails before any key derivation
\* and returns no payload; the failure is PassphraseRequired, except that
\* decodeLSB checks the number of extracted bits first and fails with its
\* not-enough-data error when they do not cover the header and the declared
\* payload.
C9_PassphraseRequiredAfterLengthChecks ==
    EncryptedWithoutPassphrase
    => /\ pc = "Failed"
       /\ dec.decryptCalls = 0
       /\ ~dec.returned
       /\ \/ error = "PassphraseRequired"
          \/ algo = "lsb" /\ error \in {"TruncatedHeader", "NotEnoughData"}

\* C9 witness: a decode of an encrypted image without passphrase that ended
\* with PassphraseRequired
C9_RefusedWithoutPassphrase ==
    EncryptedWithoutPassphrase /\ pc = "Failed" /\ error = "PassphraseRequired"

\* Some of salt, iv, authTag is missing from the arguments of buildHeader
CryptoParamsMissing(f) == ~f.salt.present \/ ~f.iv.present \/ ~f.authTag.present

\* C10: every header buildHeader returns is exactly 41 bytes long when
\* encrypted is false and 85 bytes long when it is true, whatever the
\* lengths of salt, iv and authTag; with encrypted true and one of them
\* missing it fails with InvalidCryptoParams.
C10_HeaderLength ==
    hd.phase = "built" =>
        IF hd.args.encrypted /\ CryptoParamsMissing(hd.args)
        THEN hd.out.err = "InvalidCryptoParams"
        ELSE /\ hd.out.err = ""
             /\ Len(hd.out.headerBuffer) = (IF hd.args.encrypted THEN 85 ELSE 41)
             /\ hd.out.headerSize = Len(hd.out.headerBuffer)


WellSized(f) ==
    f.encrypted =>
        /\ f.salt.present /\ Len(f.salt.bytes) = SaltBytes
        /\ f.iv.present /\ Len(f.iv.bytes) = IvBytes
        /\ f.authTag.present /\ Len(f.authTag.bytes) = TagBytes

MagicIntact(buf) == Len(buf) >= 4 /\ Slice(buf, 0, 4) = Magic

FlaggedEncrypted(buf) == Len(buf) >= 5 /\ buf[5] % 2 = 1

DeclaredHeaderSize(buf) == IF FlaggedEncrypted(buf) THEN 85 ELSE 41

\* C11: parseHeader returns a header only when the buffer holds at least the
\* declared header size (41 plain, 85 encrypted), and then with every field;
\* a buffer of fewer bytes (40, or 41..84 of an encrypted header) fails with
\* TruncatedHeader, and no header that lacks salt, iv or authTag is returned.
C11_NoPartialEnvelope ==
    (hd.phase = "parsed" /\ WellSized(hd.args)) =>
        /\ hd.parsed.err = "" =>
              /\ Len(hd.input) >= hd.parsed.hdr.headerSize
              /\ hd.parsed.hdr.encrypted => hd.parsed.hdr.hasCrypto
        /\ (MagicIntact(hd.input) /\ Len(hd.input) < DeclaredHeaderSize(hd.input))
              => hd.parsed.err = "TruncatedHeader"


ParsedWhole ==
    /\ hd.phase = "parsed"
    /\ Len(hd.input) >= Len(hd.out.headerBuffer)
    /\ Slice(hd.input, 0, Len(hd.out.headerBuffer)) = hd.out.headerBuffer

\* C13: for every payloadLength, digest and, when encrypted, 16-byte salt,
\* 12-byte iv and 16-byte authTag, parseHeader(buildHeader(fields)) returns
\* the same encrypted flag, payloadLength, digest, salt, iv and authTag, and
\* the header holds the magic at offset 0, the flags at 4, the length
\* big-endian at 5, the digest at 9, the salt at 41, the iv at 57 and the
\* authTag at 69.
C13_EnvelopeRoundTrip ==
    (ParsedWhole /\ WellSized(hd.args)) =>
        LET f == hd.args
            hb == hd.out.headerBuffer
            h == hd.parsed.hdr
        IN  /\ hd.parsed.err = ""
            /\ h.encrypted = f.encrypted
            /\ h.payloadLength = f.payloadLength
            /\ h.sha256 = Sha256(hd.plaintext)
            /\ f.encrypted =>
                  /\ h.hasCrypto
                  /\ h.salt = f.salt.bytes
                  /\ h.iv = f.iv.bytes
                  /\ h.authTag = f.authTag.bytes
            /\ Slice(hb, 0, 4) = <<83, 84, 71, 49>>
            /\ hb[5] = (IF f.encrypted THEN 1 ELSE 0)
            /\ hb[6] * 16777216 + hb[7] * 65536 + hb[8] * 256 + hb[9] = f.payloadLength
            /\ Slice(hb, 9, 41) = Sha256(hd.plaintext)
            /\ f.encrypted =>
                  /\ Slice(hb, 41, 57) = f.salt.bytes
                  /\ Slice(hb, 57, 69) = f.iv.bytes
                  /\ Slice(hb, 69, 85) = f.authTag.bytes
                  /\ Len(hb) = 85

C13_EncryptedHeaderReadBack ==
    /\ ParsedWhole
    /\ WellSized(hd.args)
    /\ hd.args.encrypted
    /\ hd.args.payloadLength = 16909060
    /\ hd.parsed.err = ""
    /\ hd.parsed.hdr.payloadLength = 16909060
    /\ hd.parsed.hdr.hasCrypto


\* An encode call has built its header and bit stream.
HeaderBuilt == algo # "none" /\ enc.headerBuffer # << >>

\* C14: in every encode, with or without a passphrase, the digest in the
\* header is the SHA-256 of the plaintext payload, taken before encryption,
\* and the payloadLength field is the byte length of what follows the header
\* (the plaintext when not encrypted, the ciphertext when encrypted), never
\* counting the header.
C14_DigestOfPlaintextLengthOfBody ==
    HeaderBuilt =>
        /\ Slice(enc.headerBuffer, 9, 41) = Sha256(payload)
        /\ ReadUInt32BE(enc.headerBuffer, 5) = Len(enc.body)
        /\ Len(enc.payloadBits) = 8 * (Len(enc.headerBuffer) + Len(enc.body))
        /\ Slice(enc.payloadBits, 8 * Len(enc.headerBuffer), Len(enc.payloadBits))
              = bytesToBits(enc.body)
        /\ ~enc.encrypted => enc.body = payload
        /\ enc.encrypted =>
              enc.body = encryptWithPassphrase(payload, opts.passphrase.bytes, 1, 2).ciphertext

C14_EncryptedEncodeBuilt ==
    /\ HeaderBuilt
    /\ enc.encrypted
    /\ payload # << >>
    /\ enc.body # payload
    /\ Slice(enc.headerBuffer, 9, 41) # Sha256(enc.body)


\* C15: every encrypting call draws its own salt and iv inside
\* encryptWithPassphrase, none is taken from the caller, and no two calls use
\* the same iv under the same derived key.
C15_FreshSaltAndIv ==
    \A i \in 1..Len(cr.calls) :
        /\ Len(cr.calls[i].salt) = SaltBytes
        /\ Len(cr.calls[i].iv) = IvBytes
        /\ \A j \in 1..Len(cr.calls) :
              i # j =>
                /\ cr.calls[i].salt # cr.calls[j].salt
                /\ cr.calls[i].iv # cr.calls[j].iv
                /\ ~(cr.calls[i].key = cr.calls[j].key /\ cr.calls[i].iv = cr.calls[j].iv)

C15_SamePassphraseTwice ==
    /\ Len(cr.calls) >= 2
    /\ cr.calls[1].passphrase = cr.calls[2].passphrase
    /\ cr.calls[1].plaintextBuf = cr.calls[2].plaintextBuf
    /\ cr.calls[1].iv # cr.calls[2].iv


\* A DCT encode on a cover of at least 8 x 8 that reached its capacity test.
DctSized == sz.phase # "none" /\ sz.algo = "dct" /\ sz.capacityComputed

C17_SmallCoverInvalidDimensions ==
    (sz.phase # "none" /\ sz.algo = "dct" /\ (sz.metaWidth < 8 \/ sz.metaHeight < 8))
    => (sz.phase = "rejected" /\ sz.error = "InvalidDimensions" /\ ~sz.capacityComputed)


\* Position in the trail of the start of the decode call, 0 if none started.
DecodeFrom ==
    IF InTrail("ExtractingBits")
    THEN CHOOSE i \in 1..Len(trail) : trail[i] = "ExtractingBits"
    ELSE 0

DecodeTrail == IF DecodeFrom = 0 THEN << >> ELSE SubSeq(trail, DecodeFrom, Len(trail))

IsPrefix(s, t) == Len(s) <= Len(t) /\ SubSeq(t, 1, Len(s)) = s

PlainDecodeOrder == <<"ExtractingBits", "ParsingEnvelope", "VerifyingIntegrity", "DecDone">>

EncryptedDecodeOrder ==
    <<"ExtractingBits", "ParsingEnvelope", "Decrypting", "VerifyingIntegrity", "DecDone">>

\* s follows the order up to some state before the last and may end there
\* in Failed.
FollowsOrder(s, order) ==
    \/ IsPrefix(s, order)
    \/ /\ Len(s) >= 2
       /\ s[Len(s)] = "Failed"
       /\ Len(s) - 1 < Len(order)
       /\ IsPrefix(SubSeq(s, 1, Len(s) - 1), order)

\* C18: every decode call goes through ExtractingBits, ParsingEnvelope,
\* Decrypting (only when the header's encrypted flag is set),
\* VerifyingIntegrity, Done in that order, the digest check being the last
\* step before the payload is returned; a failure in any state ends the call
\* in Failed, with no retry, no later state and no payload returned.
C18_DecodeOrder ==
    DecodeFrom # 0 =>
        /\ pc = trail[Len(trail)]
        /\ FollowsOrder(DecodeTrail, PlainDecodeOrder)
              \/ FollowsOrder(DecodeTrail, EncryptedDecodeOrder)
        /\ InTrail("Decrypting") => dec.header.encrypted
        /\ (InTrail("VerifyingIntegrity") /\ dec.header.encrypted) => InTrail("Decrypting")
        /\ dec.returned =>
              /\ pc = "DecDone"
              /\ dec.digestChecks = 1
              /\ trail[Len(trail) - 1] = "VerifyingIntegrity"
        /\ pc = "DecDone" => (dec.returned /\ error = "")
        /\ pc = "Failed" =>
              (~dec.returned /\ dec.payload = << >> /\ error # "")
        /\ \A k \in 1..(Len(trail) - 1) : trail[k] \notin {"Failed", "DecDone"}

C18_EncryptedDecodeDone ==
    /\ pc = "DecDone"
    /\ dec.returned
    /\ dec.header.encrypted
    /\ DecodeTrail = EncryptedDecodeOrder


\* C19: for all p1, p2 in 0..255 and every value v of capacity-many bits of
\* the pair's range, embedInPair returns pixels in 0..255 whose difference is
\* rangeStart + v in absolute value, so extractFromPair reads exactly the
\* bits of v.
C19_PairReachesTargetDifference ==
    fn.phase = "pair" =>
        /\ fn.out.p1 \in 0..255
        /\ fn.out.p2 \in 0..255
        /\ Abs(fn.out.p2 - fn.out.p1) = fn.rangeStart + fn.value
        /\ fn.read = fn.dataBits


\* C20: for every high-high coefficient c, positive, zero or negative, and
\* every bit b, the bit decodeDWT derives from the coefficient encodeDWT
\* writes (round(c'/4) modulo 2) is b, and every bit decodeDWT extracts is
\* 0 or 1.
C20_CoefficientParityRoundTrip ==
    fn.phase = "coeff" =>
        /\ fn.read \in {0, 1}
        /\ fn.read = fn.bit


\* C21: for every 2 x 2 block of pixels in 0..255 and every bit b, after
\* encodeDWT sets the block's high-high coefficient for b, inverts the
\* transform, rounds and clamps the pixels, the forward transform of the
\* stego pixels gives a high-high coefficient whose quantized parity is b.
C21_BlockRoundTrip ==
    fn.phase = "block" => fn.read = fn.bit


\* C22: for every coefficient c and bit b, with q = trunc(c/8), encodeDCT
\* writes q' * 8 where |q'| is odd iff b = 1, |q' - q| <= 1, q' = q when q
\* has the wanted parity already, and q' has the sign of q whenever q is not
\* 0; decodeDCT reads parity b from it.
C22_DctQuantizedParity ==
    fn.phase = "dctCoeff" =>
        \E q2 \in -9..9 :
            /\ fn.written = q2 * 8
            /\ (Abs(q2) % 2 = 1) <=> (fn.bit = 1)
            /\ Abs(q2 - fn.q) <= 1
            /\ ((Abs(fn.q) % 2 = 1) <=> (fn.bit = 1)) => q2 = fn.q
            /\ fn.q > 0 => q2 > 0
            /\ fn.q < 0 => q2 < 0
            /\ fn.read = fn.bit

C22_NegativeCoefficientStepped ==
    /\ fn.phase = "dctCoeff"
    /\ fn.q = -1
    /\ fn.bit = 0
    /\ fn.written = -16
    /\ fn.read = 0


\* The bit count the range table grants to an absolute difference
TableBits(d) ==
    IF d <= 15 THEN 3 ELSE IF d <= 31 THEN 4 ELSE IF d <= 63 THEN 5
    ELSE IF d <= 127 THEN 6 ELSE 7

TableStart(d) ==
    IF d <= 7 THEN 0 ELSE IF d <= 15 THEN 8 ELSE IF d <= 31 THEN 16
    ELSE IF d <= 63 THEN 32 ELSE IF d <= 127 THEN 64 ELSE 128

\* C23: getRangeInfo maps an absolute difference in 0..7, 8..15, 16..31,
\* 32..63, 64..127, 128..255 to 3, 3, 4, 5, 6, 7 bits; for every value v
\* below 2^bits the target difference rangeStart + v lies in the same range,
\* so a pair whose difference is the target gets the same range and bit
\* count from the decoder as from the encoder.
C23_RangeStable ==
    fn.phase = "pair" =>
        LET info == getRangeInfo(fn.p2 - fn.p1)
            target == info.start + fn.value
        IN  /\ info.bits = TableBits(Abs(fn.p2 - fn.p1))
            /\ info.start = TableStart(Abs(fn.p2 - fn.p1))
            /\ fn.value < Pow2(info.bits)
            /\ getRangeInfo(target) = info
            /\ getRangeInfo(-target) = info
            /\ Abs(fn.out.p2 - fn.out.p1) = target
                  => /\ Len(fn.read) = info.bits
                     /\ fn.read = fn.dataBits

C23_TopOfSecondRange ==
    /\ fn.phase = "pair"
    /\ fn.rangeStart = 8
    /\ fn.value = 7
    /\ Abs(fn.out.p2 - fn.out.p1) = 15
    /\ fn.read = <<1, 1, 1>>


\* C24: the capacityBits encodePVD reports in its metrics is the sum of the
\* per-pair bit capacities over all horizontal pairs of the three colour
\* channels of the cover; it depends on the cover alone and is the same for
\* every payload that fits.
C24_PvdReportedCapacity ==
    (algo = "pvd" /\ InTrail("EncDone")) =>
        metrics.capacityBits
          = PvdCapacityBits(data, 0, 3 * height * PairsPerRow(width), width, height)


\* Bit pos (0 = lowest) of the byte v
BitOfByte(v, pos) == (v \div Pow2(pos)) % 2

\* The place the traversal of encodeLSB gives to bitstream bit k, for the
\* channel list ch and b bits per channel: byte index (from 1) and position
LsbPlaceOf(k, ch, b) ==
    [byte |-> (k \div (Len(ch) * b)) * 4 + ch[((k \div b) % Len(ch)) + 1] + 1,
     pos |-> b - 1 - (k % b)]

\* C25: encodeLSB places bitstream bit k in pixel floor(k / (C*b)), in the
\* configured channel of index floor(k / b) mod C, at bit position
\* b - 1 - (k mod b), and changes nothing else: every bit of the buffer that
\* is not the place of a bitstream bit (the upper 8 - b bits of every
\* channel, the channels not configured, the alpha channel, the pixels after
\* the last one used) keeps its cover value.
C25_LsbPlacementAndFrame ==
    (algo = "lsb" /\ pc = "EncDone") =>
        LET ch == opts.channels
            b == BitsPerChannelOf(opts)
            bits == enc.payloadBits
            places == {LsbPlaceOf(k, ch, b) : k \in 0..(Len(bits) - 1)}
        IN  /\ \A k \in 0..(Len(bits) - 1) :
                  BitOfByte(modified[LsbPlaceOf(k, ch, b).byte], LsbPlaceOf(k, ch, b).pos)
                    = bits[k + 1]
            /\ \A i \in 1..Len(modified) : \A pos \in 0..7 :
                  [byte |-> i, pos |-> pos] \notin places
                    => BitOfByte(modified[i], pos) = BitOfByte(data[i], pos)

\* C26: when fewer bits remain than the capacity of the pair (k < capacity
\* bits passed to embedInPair), the first k bits that extractFromPair returns
\* for the modified pair are the k embedded bits, in order.
C26_PartialChunkReadBack ==
    fn.phase = "partial" =>
        /\ Len(fn.read) >= Len(fn.dataBits)
        /\ SubSeq(fn.read, 1, Len(fn.dataBits)) = fn.dataBits


\* C27: for every channel of even width and height with values in 0..255,
\* values equal to 0 and zero intermediate coefficients included, haarIDWT2D
\* applied to the unmodified subbands of haarDWT2D returns the original
\* values, so the pixels no embedded bit touched are the same in cover and
\* stego.
C27_HaarPerfectReconstruction ==
    fn.phase = "haar" =>
        /\ fn.back4 = [n \in 1..(fn.width * fn.height) |-> 4 * fn.pixels[n]]
        /\ fn.stego = fn.pixels


\* Number of bits the encoder of sz.algo has placed in the image it returned
SizeEmbeddedCount ==
    IF sz.algo = "dct"
    THEN Min(sz.bitstreamLen, DctBlocks(sz.width, sz.height) * 3 * CoeffsPerBlock)
    ELSE sz.bitstreamLen

\* C28: the bit extraction of decodeLSB (capped at 1,000,000 bits) and of
\* decodeDCT (capped at 100,000 bits) yields at least as many bits as the
\* matching encoder embedded: no cover and payload that encodeLSB or
\* encodeDCT accepts has its bitstream cut short by the extraction bound.
C28_ExtractionBoundNeverCuts ==
    (sz.phase \in {"decoded", "decodedCut", "decodeFailed"} /\ sz.algo \in {"lsb", "dct"})
    => sz.extracted >= SizeEmbeddedCount


\* C29: a coefficient written by encodeDCT as q' * 8 is read back by
\* decodeDCT with the embedded parity whenever the coefficient recomputed
\* from the stego pixels differs from q' * 8 by less than half the
\* quantization step (less than 4), in either direction.
C29_DriftBelowHalfStepTolerated ==
    (fn.phase = "drift" /\ 2 * Abs(fn.recomputed - fn.written) < DctQuantStep)
    => fn.read = fn.bit


\* C30: for a cover of odd width or odd height, encodeDWT writes into each
\* pixel (x, y) with x < 2 * floor(width / 2) and y < 2 * floor(height / 2)
\* the reconstructed value computed for that same coordinate, leaves the
\* pixels of the unpaired last column and last row at their cover values,
\* and the stego buffer keeps the dimensions of the cover.
C30_OddCoverWriteBack ==
    fn.phase = "odd" =>
        /\ Len(fn.stego) = fn.width * fn.height
        /\ \A y \in 0..(fn.height - 1) : \A x \in 0..(fn.width - 1) :
              fn.stego[y * fn.width + x + 1] =
                 IF x < 2 * fn.halfWidth /\ y < 2 * fn.halfHeight
                 THEN Clamp255(RoundQuarter(
                          fn.modifiedChannelData[y * 2 * fn.halfWidth + x + 1]))
                 ELSE fn.pixels[y * fn.width + x + 1]

====
